---- MODULE Spec2Model ----
(***************************************************************************)
(* LogToolPro (src-tauri): the interactive SSH session manager             *)
(* (ssh_session.rs) and the recursive chain tracer (lib.rs).               *)
(*                                                                         *)
(* SpecSession / SpecSessionFair: SessionManager with its caller threads,  *)
(* one reader thread per started session and the remote side of each       *)
(* channel.  SpecTrace: trace_server_chain / trace_chain_recursive with    *)
(* the recursion unrolled over an explicit stack of frames.  SpecCrypto:    *)
(* encrypt_password / decrypt_password (crypto.rs).  SpecConn: the calls   *)
(* start_session and execute_ssh_for_chain make to set up a connection.    *)
(***************************************************************************)
EXTENDS Integers, Sequences, FiniteSets, TLC

(* ------------------------------ bounds -------------------------------- *)
MaxSessions == 1
NumCallers == 2
MaxCalls == 3
MaxBytes == 2
MaxHosts == 3
MaxLines == 3

MaxPwLen == 2

(* ------------------------- program constants -------------------------- *)
\* trace_server_chain passes max_depth = 10 to trace_chain_recursive.
DefaultMaxDepth == 10

\* crypto.rs: let mut nonce_bytes = [0u8; 12]
NonceLen == 12

\* The length of the authentication tag of AES-256-GCM.
TagLen == 16

(* ---------------------------------------------------------------------- *)
VARIABLES
    \* ---- ssh_session.rs
    nextId,      \* number of session ids (Uuid::new_v4) handed out so far
    sessions,    \* SessionManager.sessions: the ids present in the DashMap
    refs,        \* callers holding a DashMap Ref (shard read lock) from get()
    shutdown,    \* SshSession.shutdown (Arc<AtomicBool>), per session
    holder,      \* owner of the session's std::sync::Mutex (NoThread if free)
    poisoned,    \* sessions whose Mutex is poisoned
    spawned,     \* number of reader threads spawned, per session
    rpc,         \* reader thread's position, per session
    rbuf,        \* reader thread's buffer[..bytes_read]
    consumed,    \* number of bytes of the remote shell's stream read so far
    chunks,      \* what the successful reads returned, in order, per session
    events,      \* events emitted through app_handle.emit, in order, per session
    call,        \* per caller thread: the API call it is executing
    ret,         \* the API call that returned last, with its result
    ncalls,      \* number of API calls begun
    sleepsAfter, \* reader sleeps begun with the shutdown flag already set
    readsAfter,  \* reader reads done with the shutdown flag already set
    eventsAfter, \* reader events emitted with the shutdown flag already set
    ended,       \* why the reader thread's loop ended ("no" while it runs)
    \* ---- lib.rs, one trace_server_chain call
    root,          \* host: the start server
    known_servers, \* hosts of the known_servers argument
    max_depth,     \* max_depth argument of trace_chain_recursive
    stack,         \* active trace_chain_recursive calls, the innermost last
    trace_log,     \* trace_log
    visited_ips,   \* visited_ips
    execs,         \* every execute_ssh_for_chain call made, in order
    tres,          \* what trace_server_chain returned
    \* ---- crypto.rs, one password
    password,      \* the plaintext password (its characters' code points)
    nonce_bytes,   \* the nonce OsRng produced
    encrypted,     \* what encrypt_password returned
    decrypted,     \* what decrypt_password returned
    cpc,           \* "start", "encrypted", "decrypted"; "idle" when unused
    \* ---- one connection set up by start_session or execute_ssh_for_chain
    remote,        \* how the remote host and the local socket calls answer
    conn           \* the operation, its position, the calls made, its result

svars == <<nextId, sessions, refs, shutdown, holder, poisoned, spawned, rpc,
           rbuf, consumed, chunks, events, call, ret, ncalls, sleepsAfter,
           readsAfter, eventsAfter, ended>>

tvars == <<root, known_servers, max_depth, stack, trace_log, visited_ips,
           execs, tres>>

cvars == <<password, nonce_bytes, encrypted, decrypted, cpc>>

nvars == <<remote, conn>>

vars == <<svars, tvars, cvars, nvars>>

SessionIds == 1..MaxSessions
Callers == 1..NumCallers
NoThread == 0
Reader == -1

\* The byte stream of the remote shell: a two-byte UTF-8 character, then ASCII.
RemoteByte(i) == IF i = 1 THEN "m1" ELSE IF i = 2 THEN "m2" ELSE "a"

Idle == [op |-> "none", sid |-> 0, pc |-> "idle"]

SetupOutcomes == {"tcp", "handshake", "auth", "unauthenticated", "channel",
                  "pty", "shell", "ok"}

(* --------------------------- initial state ---------------------------- *)
SessionInit ==
    /\ nextId = 0
    /\ sessions = {}
    /\ refs = {}
    /\ shutdown = [s \in SessionIds |-> FALSE]
    /\ holder = [s \in SessionIds |-> NoThread]
    /\ poisoned = {}
    /\ spawned = [s \in SessionIds |-> 0]
    /\ rpc = [s \in SessionIds |-> "none"]
    /\ rbuf = [s \in SessionIds |-> <<>>]
    /\ consumed = [s \in SessionIds |-> 0]
    /\ chunks = [s \in SessionIds |-> <<>>]
    /\ events = [s \in SessionIds |-> <<>>]
    /\ call = [c \in Callers |-> Idle]
    /\ ret = [op |-> "none", sid |-> 0, res |-> "none"]
    /\ ncalls = 0
    /\ sleepsAfter = [s \in SessionIds |-> 0]
    /\ readsAfter = [s \in SessionIds |-> 0]
    /\ eventsAfter = [s \in SessionIds |-> 0]
    /\ ended = [s \in SessionIds |-> "no"]


(* ----------------------- std::sync::Mutex / DashMap ------------------- *)
\* Mutex::lock blocks until the mutex is free.
CanLock(s) == holder[s] = NoThread

\* DashMap::insert / remove take the shard's write lock: no Ref may be alive.
CanWrite == refs = {}

(* --------------------------- caller threads --------------------------- *)
\* A thread is free before its first call and after a call has returned.
Free(c) == call[c].pc = "idle"

\* A call returns r to its caller.
Returned(op, s, r) == [op |-> op, sid |-> s, res |-> r]

\* A caller thread may begin an API call (the lowest free thread takes it).
CanBegin(c) ==
    /\ Free(c)
    /\ \A d \in Callers : d < c => ~Free(d)
    /\ ncalls < MaxCalls

\* Mutant: the session is registered before the shell is started.
StartSetupRegistersEarly(c) ==
    /\ CanBegin(c)
    /\ nextId < MaxSessions
    /\ nextId' = nextId + 1
    /\ ncalls' = ncalls + 1
    /\ \E o \in SetupOutcomes :
         IF o = "ok"
         THEN /\ call' = [call EXCEPT ![c] = [op |-> "start_session",
                                             sid |-> nextId + 1, pc |-> "insert"]]
              /\ ret' = ret
              /\ sessions' = sessions
         ELSE /\ call' = call
              /\ ret' = Returned("start_session", nextId + 1, o)
              /\ sessions' = IF o = "shell" THEN sessions \cup {nextId + 1}
                             ELSE sessions
    /\ UNCHANGED <<tvars, cvars, nvars>>
    /\ UNCHANGED <<refs, shutdown, holder, poisoned, spawned, rpc,
                   rbuf, consumed, chunks, events, sleepsAfter, readsAfter, eventsAfter, ended>>

\* start_session, lines 79-119: the id is drawn, then connect .. shell; the
\* first failing step returns its error.
StartSetup(c) ==
    /\ CanBegin(c)
    /\ nextId < MaxSessions
    /\ nextId' = nextId + 1
    /\ ncalls' = ncalls + 1
    /\ \E o \in SetupOutcomes :
         IF o = "ok"
         THEN /\ call' = [call EXCEPT ![c] = [op |-> "start_session",
                                             sid |-> nextId + 1, pc |-> "insert"]]
              /\ ret' = ret
         ELSE /\ call' = call
              /\ ret' = Returned("start_session", nextId + 1, o)
    /\ UNCHANGED <<tvars, cvars, nvars>>
    /\ UNCHANGED <<sessions, refs, shutdown, holder, poisoned, spawned, rpc,
                   rbuf, consumed, chunks, events, sleepsAfter, readsAfter, eventsAfter, ended>>

\* start_session, lines 121-135: the session object is built and registered.
StartInsert(c) ==
    /\ call[c].pc = "insert"
    /\ CanWrite
    /\ sessions' = sessions \cup {call[c].sid}
    /\ call' = [call EXCEPT ![c].pc = "spawn"]
    /\ UNCHANGED <<tvars, cvars, nvars>>
    /\ UNCHANGED <<nextId, refs, shutdown, holder, poisoned, spawned, rpc, rbuf,
                   consumed, chunks, events, ret, ncalls, sleepsAfter, readsAfter, eventsAfter, ended>>

\* start_session, lines 138-193: the reader thread is spawned, the id returned.
StartSpawn(c) ==
    /\ call[c].pc = "spawn"
    /\ spawned' = [spawned EXCEPT ![call[c].sid] = @ + 1]
    /\ rpc' = [rpc EXCEPT ![call[c].sid] = "top"]
    /\ call' = [call EXCEPT ![c] = Idle]
    /\ ret' = Returned("start_session", call[c].sid, "ok")
    /\ UNCHANGED <<tvars, cvars, nvars>>
    /\ UNCHANGED <<nextId, sessions, refs, shutdown, holder, poisoned, rbuf,
                   consumed, chunks, events, ncalls, sleepsAfter, readsAfter, eventsAfter, ended>>

\* Mutant: the lookup never misses.
LookupNeverMisses(s) == FALSE

\* self.sessions.get(session_id) finds no entry
LookupMiss(s) == s \notin sessions

\* send_input / resize, lines 197-200 and 208-211:
\* self.sessions.get(session_id).ok_or("Session not found")?
Lookup(c) ==
    /\ CanBegin(c)
    /\ ncalls' = ncalls + 1
    /\ \E op \in {"send_input", "resize"}, s \in SessionIds :
         IF LookupMiss(s)
         THEN /\ call' = call
              /\ ret' = Returned(op, s, "NotFound")
              /\ refs' = refs
         ELSE /\ call' = [call EXCEPT ![c] = [op |-> op, sid |-> s, pc |-> "lock"]]
              /\ ret' = ret
              /\ refs' = refs \cup {c}
    /\ UNCHANGED <<tvars, cvars, nvars>>
    /\ UNCHANGED <<nextId, sessions, shutdown, holder, poisoned, spawned, rpc,
                   rbuf, consumed, chunks, events, sleepsAfter, readsAfter, eventsAfter, ended>>

\* close_session, line 218: self.sessions.remove(session_id)
Remove(c) ==
    /\ CanBegin(c)
    /\ CanWrite
    /\ ncalls' = ncalls + 1
    /\ \E s \in SessionIds :
         IF s \in sessions
         THEN /\ sessions' = sessions \ {s}
              /\ call' = [call EXCEPT ![c] = [op |-> "close_session", sid |-> s,
                                             pc |-> "lock"]]
              /\ ret' = ret
         ELSE /\ sessions' = sessions
              /\ call' = call
              /\ ret' = Returned("close_session", s, "ok")
    /\ UNCHANGED <<tvars, cvars, nvars>>
    /\ UNCHANGED <<nextId, refs, shutdown, holder, poisoned, spawned, rpc, rbuf,
                   consumed, chunks, events, sleepsAfter, readsAfter, eventsAfter, ended>>

\* Mutant: the channel is reached without taking the session's lock.
LockNotTaken(c) ==
    /\ call[c].pc = "lock"
    /\ call' = [call EXCEPT ![c].pc = "chan"]
    /\ UNCHANGED <<tvars, cvars, nvars>>
    /\ UNCHANGED <<nextId, sessions, refs, shutdown, holder, poisoned, spawned,
                   rpc, rbuf, consumed, chunks, events, ret, ncalls, sleepsAfter,
                   readsAfter, eventsAfter, ended>>

\* session.lock(), lines 202, 213, 219: send_input / resize map a poisoned
\* mutex to "Lock failed", close_session skips the close.
Lock(c) ==
    /\ call[c].pc = "lock"
    /\ IF call[c].sid \in poisoned
       THEN /\ call' = [call EXCEPT ![c] = Idle]
            /\ ret' = Returned(call[c].op, call[c].sid,
                               IF call[c].op = "close_session"
                               THEN "ok" ELSE "LockFailed")
            /\ refs' = refs \ {c}
            /\ holder' = holder
       ELSE /\ CanLock(call[c].sid)
            /\ holder' = [holder EXCEPT ![call[c].sid] = c]
            /\ call' = [call EXCEPT ![c].pc = "chan"]
            /\ ret' = ret
            /\ refs' = refs
    /\ UNCHANGED <<tvars, cvars, nvars>>
    /\ UNCHANGED <<nextId, sessions, shutdown, poisoned, spawned, rpc, rbuf,
                   consumed, chunks, events, ncalls, sleepsAfter, readsAfter, eventsAfter, ended>>

\* SshSession::write / SshSession::resize on the channel, then both guards drop.
ChannelOp(c) ==
    /\ call[c].pc = "chan"
    /\ call[c].op \in {"send_input", "resize"}
    /\ \E r \in {"ok", "ChannelError"} :
         ret' = Returned(call[c].op, call[c].sid, r)
    /\ call' = [call EXCEPT ![c] = Idle]
    /\ holder' = [holder EXCEPT ![call[c].sid] = NoThread]
    /\ refs' = refs \ {c}
    /\ UNCHANGED <<tvars, cvars, nvars>>
    /\ UNCHANGED <<nextId, sessions, shutdown, poisoned, spawned, rpc, rbuf,
                   consumed, chunks, events, ncalls, sleepsAfter, readsAfter, eventsAfter, ended>>

\* Mutant: close forgets the shutdown flag.
CloseWithoutStore(c) ==
    /\ call[c].pc = "chan"
    /\ call[c].op = "close_session"
    /\ call' = [call EXCEPT ![c].pc = "eof"]
    /\ UNCHANGED <<tvars, cvars, nvars>>
    /\ UNCHANGED <<nextId, sessions, refs, shutdown, holder, poisoned, spawned,
                   rpc, rbuf, consumed, chunks, events, ret, ncalls, sleepsAfter,
                   readsAfter, eventsAfter, ended>>

\* SshSession::close, line 48: self.shutdown.store(true)
CloseStore(c) ==
    /\ call[c].pc = "chan"
    /\ call[c].op = "close_session"
    /\ shutdown' = [shutdown EXCEPT ![call[c].sid] = TRUE]
    /\ call' = [call EXCEPT ![c].pc = "eof"]
    /\ UNCHANGED <<tvars, cvars, nvars>>
    /\ UNCHANGED <<nextId, sessions, refs, holder, poisoned, spawned, rpc, rbuf,
                   consumed, chunks, events, ret, ncalls, sleepsAfter, readsAfter, eventsAfter, ended>>

\* Mutant: close_session returns with the session's lock still held.
CloseChannelKeepsLock(c) ==
    /\ call[c].pc = "eof"
    /\ holder' = holder
    /\ call' = [call EXCEPT ![c] = Idle]
    /\ ret' = Returned("close_session", call[c].sid, "ok")
    /\ UNCHANGED <<tvars, cvars, nvars>>
    /\ UNCHANGED <<nextId, sessions, refs, shutdown, poisoned, spawned, rpc, rbuf,
                   consumed, chunks, events, ncalls, sleepsAfter, readsAfter,
                   eventsAfter, ended>>

\* SshSession::close, lines 49-50: send_eof, wait_close (results ignored); the
\* guard drops and close_session returns Ok.
CloseChannel(c) ==
    /\ call[c].pc = "eof"
    /\ holder' = [holder EXCEPT ![call[c].sid] = NoThread]
    /\ call' = [call EXCEPT ![c] = Idle]
    /\ ret' = Returned("close_session", call[c].sid, "ok")
    /\ UNCHANGED <<tvars, cvars, nvars>>
    /\ UNCHANGED <<nextId, sessions, refs, shutdown, poisoned, spawned, rpc, rbuf,
                   consumed, chunks, events, ncalls, sleepsAfter, readsAfter, eventsAfter, ended>>

(* ---------------------------- reader thread --------------------------- *)
\* Mutant: the flag is checked on entry only, not after a sleep.
ReaderTopAfterSleepUnchecked(s) ==
    /\ rpc[s] \in {"top", "sleep"}
    /\ rpc' = [rpc EXCEPT ![s] = IF shutdown[s] /\ rpc[s] = "top"
                                 THEN "done" ELSE "lock"]
    /\ UNCHANGED <<tvars, cvars, nvars>>
    /\ UNCHANGED <<nextId, sessions, refs, shutdown, holder, poisoned, spawned,
                   rbuf, consumed, chunks, events, call, ret, ncalls, sleepsAfter,
                   readsAfter, eventsAfter, ended>>

\* line 142: if shutdown_clone.load() { break; }, at the first iteration, after
\* an emit, or when the 10 ms sleep of line 168 ends
ReaderTop(s) ==
    /\ rpc[s] \in {"top", "sleep"}
    /\ rpc' = [rpc EXCEPT ![s] = IF shutdown[s] THEN "done" ELSE "lock"]
    /\ ended' = [ended EXCEPT ![s] = IF shutdown[s] THEN "shutdown" ELSE @]
    /\ UNCHANGED <<tvars, cvars, nvars>>
    /\ UNCHANGED <<nextId, sessions, refs, shutdown, holder, poisoned, spawned,
                   rbuf, consumed, chunks, events, call, ret, ncalls, sleepsAfter,
                   readsAfter, eventsAfter>>

\* lines 148-151: session_arc.lock(), break on a poisoned mutex
ReaderLock(s) ==
    /\ rpc[s] = "lock"
    /\ IF s \in poisoned
       THEN /\ rpc' = [rpc EXCEPT ![s] = "done"]
            /\ ended' = [ended EXCEPT ![s] = "poisoned"]
            /\ holder' = holder
       ELSE /\ CanLock(s)
            /\ holder' = [holder EXCEPT ![s] = Reader]
            /\ rpc' = [rpc EXCEPT ![s] = "read"]
            /\ ended' = ended
    /\ UNCHANGED <<tvars, cvars, nvars>>
    /\ UNCHANGED <<nextId, sessions, refs, shutdown, poisoned, spawned, rbuf,
                   consumed, chunks, events, call, ret, ncalls, sleepsAfter,
                   readsAfter, eventsAfter>>

\* The bytes from..to of the remote shell's stream.
RECURSIVE StreamBytes(_, _)
StreamBytes(from, to) ==
    IF from > to THEN <<>> ELSE <<RemoteByte(from)>> \o StreamBytes(from + 1, to)

\* The number of bytes the remote shells may still send; MaxBytes bounds what
\* all of them send.
RECURSIVE BytesRead(_)
BytesRead(S) ==
    IF S = {} THEN 0
    ELSE LET s == CHOOSE x \in S : TRUE IN consumed[s] + BytesRead(S \ {s})

BytesLeft == MaxBytes - BytesRead(SessionIds)

\* session.channel.read(&mut buffer) is non-blocking: what it returns is up to
\* the remote side, which may have sent more bytes, closed, or broken off.
ReadOutcomes(s) ==
    {"eof", "wouldblock", "err"} \cup (IF BytesLeft > 0 THEN {"data"} ELSE {})

\* Mutant: after the exit event the loop goes on.
ReadEofContinues(s) ==
    /\ events' = [events EXCEPT ![s] =
                    Append(@, [kind |-> "exit", sid |-> s, data |-> <<>>])]
    /\ rpc' = [rpc EXCEPT ![s] = "top"]
    /\ ended' = ended
    /\ holder' = [holder EXCEPT ![s] = NoThread]

\* lines 154-163, Ok(0): emit "ssh-exit" under the lock, break (the guard drops
\* as the block is left)
ReadEof(s) ==
    /\ events' = [events EXCEPT ![s] =
                    Append(@, [kind |-> "exit", sid |-> s, data |-> <<>>])]
    /\ rpc' = [rpc EXCEPT ![s] = "done"]
    /\ ended' = [ended EXCEPT ![s] = "eof"]
    /\ holder' = [holder EXCEPT ![s] = NoThread]

\* Mutant: a read error is reported to the frontend as the end of the session.
ReadErrEmitsExit(s) ==
    /\ events' = [events EXCEPT ![s] =
                    Append(@, [kind |-> "exit", sid |-> s, data |-> <<>>])]
    /\ rpc' = [rpc EXCEPT ![s] = "done"]
    /\ ended' = [ended EXCEPT ![s] = "err"]
    /\ holder' = [holder EXCEPT ![s] = NoThread]

\* lines 171-173, Err(_) that is not WouldBlock: break, nothing is emitted (the
\* guard drops as the block is left)
ReadErr(s) ==
    /\ events' = events
    /\ rpc' = [rpc EXCEPT ![s] = "done"]
    /\ ended' = [ended EXCEPT ![s] = "err"]
    /\ holder' = [holder EXCEPT ![s] = NoThread]

\* lines 153-175: session.channel.read(&mut buffer) and its four outcomes.
ReaderRead(s) ==
    /\ rpc[s] = "read"
    /\ readsAfter' = [readsAfter EXCEPT ![s] = IF shutdown[s] THEN @ + 1 ELSE @]
    /\ \E o \in ReadOutcomes(s) :
         CASE o = "eof" ->
              /\ ReadEof(s)
              /\ UNCHANGED <<rbuf, consumed, chunks, sleepsAfter>>
           [] o = "data" ->
              \* Ok(n): the guard drops at the end of the block
              /\ \E n \in 1..BytesLeft :
                   /\ rbuf' = [rbuf EXCEPT ![s] =
                                StreamBytes(consumed[s] + 1, consumed[s] + n)]
                   /\ consumed' = [consumed EXCEPT ![s] = @ + n]
                   /\ chunks' = [chunks EXCEPT ![s] =
                                  Append(@, StreamBytes(consumed[s] + 1, consumed[s] + n))]
              /\ rpc' = [rpc EXCEPT ![s] = "emit"]
              /\ holder' = [holder EXCEPT ![s] = NoThread]
              /\ UNCHANGED <<events, sleepsAfter, ended>>
           [] o = "wouldblock" ->
              \* drop(session); thread::sleep(10 ms); continue
              /\ rpc' = [rpc EXCEPT ![s] = "sleep"]
              /\ holder' = [holder EXCEPT ![s] = NoThread]
              /\ sleepsAfter' = [sleepsAfter EXCEPT ![s] = IF shutdown[s] THEN @ + 1 ELSE @]
              /\ UNCHANGED <<rbuf, consumed, chunks, events, ended>>
           [] o = "err" ->
              /\ ReadErr(s)
              /\ UNCHANGED <<rbuf, consumed, chunks, sleepsAfter>>
    /\ eventsAfter' = [eventsAfter EXCEPT ![s] =
                         IF shutdown[s] /\ events'[s] # events[s] THEN @ + 1 ELSE @]
    /\ UNCHANGED <<tvars, cvars, nvars>>
    /\ UNCHANGED <<nextId, sessions, refs, shutdown, poisoned, spawned, call, ret,
                   ncalls>>

\* String::from_utf8_lossy: a byte that is not part of a complete character
\* within the chunk becomes U+FFFD.
RECURSIVE FromUtf8Lossy(_)
FromUtf8Lossy(b) ==
    IF b = <<>> THEN <<>>
    ELSE IF b[1] = "a" THEN <<"a">> \o FromUtf8Lossy(Tail(b))
    ELSE IF b[1] = "m1" /\ Len(b) >= 2 /\ b[2] = "m2"
         THEN <<"M">> \o FromUtf8Lossy(SubSeq(b, 3, Len(b)))
    ELSE <<"U+FFFD">> \o FromUtf8Lossy(Tail(b))

\* Mutant: a chunk read before the session was closed is not emitted.
ReaderEmitUnlessShutdown(s) ==
    /\ rpc[s] = "emit"
    /\ events' = [events EXCEPT ![s] =
                    IF shutdown[s] THEN @
                    ELSE Append(@, [kind |-> "output", sid |-> s,
                                    data |-> FromUtf8Lossy(rbuf[s])])]
    /\ rpc' = [rpc EXCEPT ![s] = "top"]
    /\ eventsAfter' = [eventsAfter EXCEPT ![s] =
                         IF shutdown[s] /\ events'[s] # events[s] THEN @ + 1 ELSE @]
    /\ UNCHANGED <<tvars, cvars, nvars>>
    /\ UNCHANGED <<nextId, sessions, refs, shutdown, holder, poisoned, spawned,
                   rbuf, consumed, chunks, call, ret, ncalls, sleepsAfter,
                   readsAfter, ended>>

\* lines 177-189: emit "ssh-output" with the decoded chunk
ReaderEmit(s) ==
    /\ rpc[s] = "emit"
    /\ events' = [events EXCEPT ![s] =
                    Append(@, [kind |-> "output", sid |-> s,
                               data |-> FromUtf8Lossy(rbuf[s])])]
    /\ rpc' = [rpc EXCEPT ![s] = "top"]
    /\ eventsAfter' = [eventsAfter EXCEPT ![s] =
                         IF shutdown[s] /\ events'[s] # events[s] THEN @ + 1 ELSE @]
    /\ UNCHANGED <<tvars, cvars, nvars>>
    /\ UNCHANGED <<nextId, sessions, refs, shutdown, holder, poisoned, spawned,
                   rbuf, consumed, chunks, call, ret, ncalls, sleepsAfter,
                   readsAfter, ended>>

(* ====================================================================== *)
(*                      lib.rs: the chain tracer                          *)
(* ====================================================================== *)
Hosts == 1..MaxHosts

\* Values of max_depth: the one trace_server_chain passes, and small ones that
\* the recursion reaches.
MaxDepths == {1, 2, DefaultMaxDepth}

\* A line of command output is the sequence of its whitespace-separated tokens;
\* a file name or business id is the sequence of its pieces, "./" being one.
\* What the primary search command can print: a line per log entry that names a
\* business id and a peer ip, or less when the entry lacks one of them.
HopLine(h) == << <<"hop", h>>, <<"B", "1">>, h >>

PrimaryLines ==
    { HopLine(h) : h \in Hosts } \cup
    { << <<"./", "./", "alt">>, <<"C", "1">>, 2 >>,
      << <<"./", "gw">>, <<"G", "1">>, 2 >>,
      << <<"misc">>, <<"X", "1">>, 2 >>,
      << <<"short">>, <<"B", "1">> >> }

\* sort -u: the lines of an output are pairwise distinct (their order is that of
\* the file names, which are arbitrary).
RECURSIVE Distinct(_)
Distinct(seq) ==
    \/ Len(seq) <= 1
    \/ /\ \A k \in 2..Len(seq) : seq[k] # seq[1]
       /\ Distinct(Tail(seq))

SeqsUpTo(S, n) == UNION { [1..k -> S] : k \in 0..n }

\* The outputs of at most n lines.
PrimaryOutputs(n) == { o \in SeqsUpTo(PrimaryLines, n) : Distinct(o) }

\* What the secondary search command (awk: filename, first code) can print.
FallbackLines == { << <<"app">>, <<"B", "9">> >>, << <<"app">> >> }

\* The outputs of at most n lines.
FallbackOutputs(n) == SeqsUpTo(FallbackLines, n)

(* ------------------------------ helpers ------------------------------- *)
\* Mutant: only one leading "./" is removed.
TrimStartOnce(tok) ==
    IF tok # <<>> /\ tok[1] = "./" THEN Tail(tok) ELSE tok

\* str::trim_start_matches("./"): every leading "./" is removed.
RECURSIVE TrimStartMatches(_)
TrimStartMatches(tok) ==
    IF tok # <<>> /\ tok[1] = "./" THEN TrimStartMatches(Tail(tok)) ELSE tok

\* str::starts_with(char)
StartsWith(tok, ch) == tok # <<>> /\ tok[1] = ch

NoParse == [some |-> FALSE]

\* parse_chain_line
ParseChainLine(line) ==
    IF Len(line) >= 3
    THEN [some |-> TRUE, filename |-> TrimStartMatches(line[1]),
          dus_id |-> line[2], ip |-> line[3]]
    ELSE NoParse

\* is_valid_chain_node
IsValidChainNode(dus_id) == StartsWith(dus_id, "B") \/ StartsWith(dus_id, "C")

\* Mutant: only B and C entries count, as they do for the recursion.
HasValid(lines) ==
    \E k \in 1..Len(lines) :
        LET p == ParseChainLine(lines[k])
        IN  p.some /\ IsValidChainNode(p.dus_id)

\* has_non_g, line 400
HasNonG(lines) ==
    \E k \in 1..Len(lines) :
        LET p == ParseChainLine(lines[k])
        IN  p.some /\ ~StartsWith(p.dus_id, "G")

\* the fallback decision, line 403
NeedsFallback(lines) == lines = <<>> \/ ~HasNonG(lines)

ChainNode(filename, dus_id, ip, children) ==
    [filename |-> filename, dus_id |-> dus_id, ip |-> ip, children |-> children]

LogLine(tag, host, n) == [tag |-> tag, host |-> host, n |-> n]

\* lines 412-427: one leaf node, and one log line, per fallback line of at
\* least two tokens
RECURSIVE FallbackNodes(_, _)
FallbackNodes(out, host) ==
    IF out = <<>> THEN <<>>
    ELSE (IF Len(out[1]) >= 2
          THEN <<ChainNode(out[1][1], out[1][2], host, <<>>)>>
          ELSE <<>>) \o FallbackNodes(Tail(out), host)

RECURSIVE FallbackLog(_, _)
FallbackLog(out, host) ==
    IF out = <<>> THEN <<>>
    ELSE (IF Len(out[1]) >= 2
          THEN <<LogLine("FALLBACK_FOUND", host, 0)>>
          ELSE <<>>) \o FallbackLog(Tail(out), host)

NewFrame(host, depth) ==
    [host |-> host, depth |-> depth, pc |-> "enter", lines |-> <<>>, i |-> 1,
     nodes |-> <<>>, fallback_nodes |-> <<>>]

Top == stack[Len(stack)]
Rest == SubSeq(stack, 1, Len(stack) - 1)
WithTop(f) == Append(Rest, f)

OkResult(nodes) == [ok |-> TRUE, nodes |-> nodes, err |-> 0]
ErrResult(host) == [ok |-> FALSE, nodes |-> <<>>, err |-> host]

\* lines 502-509
LogHeader(h) ==
    << LogLine("BEGIN", 0, 0), LogLine("TRACE_ID", 0, 0),
       LogLine("START_HOST", h, 0), LogLine("LOG_PATH", 0, 0),
       LogLine("BLANK", 0, 0) >>

Running == [state |-> "running", nodes |-> <<>>, trace_log |-> <<>>,
            total_hops |-> 0, error |-> 0]

\* The known_servers arguments tried: every host is configured, or all but one
\* (which may be the start server, whose credentials are passed separately).
KnownServerSets == {Hosts} \cup { Hosts \ {h} : h \in Hosts }

(* --------------------------- initial state ---------------------------- *)
TraceInit ==
    /\ root = 1
    /\ known_servers \in KnownServerSets
    /\ max_depth \in MaxDepths
    /\ stack = <<NewFrame(1, 0)>>
    /\ trace_log = LogHeader(1)
    /\ visited_ips = {}
    /\ execs = <<>>
    /\ tres = Running

\* No trace is running.
TraceIdle ==
    /\ root = 1
    /\ known_servers = {}
    /\ max_depth = DefaultMaxDepth
    /\ stack = <<>>
    /\ trace_log = <<>>
    /\ visited_ips = {}
    /\ execs = <<>>
    /\ tres = Running

(* ------------------------- a call returns ----------------------------- *)
\* The innermost call returns r, its log being log.  At the root,
\* trace_server_chain builds its result (lines 525-551); below it, the caller's
\* loop takes the children, an error becoming a log line and no children (lines
\* 462-480).
Return(r, log) ==
    IF Rest = <<>>
    THEN /\ stack' = <<>>
         /\ IF r.ok
            THEN /\ trace_log' = log \o << LogLine("BLANK", 0, 0),
                                          LogLine("DONE", 0, Cardinality(visited_ips)) >>
                 /\ tres' = [state |-> "ok", nodes |-> r.nodes,
                             trace_log |-> trace_log',
                             total_hops |-> Cardinality(visited_ips), error |-> 0]
            ELSE /\ trace_log' = log
                 /\ tres' = [state |-> "err", nodes |-> <<>>,
                             trace_log |-> << LogLine("Error", r.err, 0) >>,
                             total_hops |-> 0, error |-> r.err]
    ELSE LET par == Rest[Len(Rest)]
             p == ParseChainLine(par.lines[par.i])
         IN  /\ stack' = Append(SubSeq(Rest, 1, Len(Rest) - 1),
                            [par EXCEPT !.nodes = Append(@, ChainNode(p.filename,
                                                    p.dus_id, par.host, r.nodes)),
                                        !.i = @ + 1,
                                        !.pc = "loop"])
             /\ trace_log' = IF r.ok THEN log
                             ELSE Append(log, LogLine("ERROR_TRACE", p.ip, r.err))
             /\ tres' = tres

(* ------------------------ trace_chain_recursive ----------------------- *)
\* Mutant: the depth check is off by one.
DepthExceeded(f) == f.depth > max_depth

\* line 376
DepthReached(f) == f.depth >= max_depth

\* line 381
AlreadyVisited(f) == f.host \in visited_ips

\* Mutant: the host is marked as visited before the depth is checked.
EnterMarksFirst ==
    /\ stack # <<>>
    /\ Top.pc = "enter"
    /\ IF AlreadyVisited(Top)
       THEN /\ Return(OkResult(<<>>), Append(trace_log, LogLine("SKIP", Top.host, 0)))
            /\ UNCHANGED visited_ips
       ELSE /\ visited_ips' = visited_ips \cup {Top.host}
            /\ IF DepthReached(Top)
               THEN Return(OkResult(<<>>),
                           Append(trace_log, LogLine("WARN", Top.host, max_depth)))
               ELSE /\ trace_log' = Append(trace_log,
                                        LogLine("SEARCHING", Top.host, Top.depth + 1))
                    /\ stack' = WithTop([Top EXCEPT !.pc = "search"])
                    /\ tres' = tres
    /\ UNCHANGED <<root, known_servers, max_depth, execs>>
    /\ UNCHANGED <<svars, cvars, nvars>>

\* Mutant: the host is not marked as visited.
EnterUnmarked ==
    /\ stack # <<>>
    /\ Top.pc = "enter"
    /\ IF DepthReached(Top)
       THEN Return(OkResult(<<>>), Append(trace_log, LogLine("WARN", Top.host, max_depth)))
       ELSE /\ trace_log' = Append(trace_log, LogLine("SEARCHING", Top.host, Top.depth + 1))
            /\ stack' = WithTop([Top EXCEPT !.pc = "search"])
            /\ tres' = tres
    /\ UNCHANGED <<root, known_servers, max_depth, execs, visited_ips>>
    /\ UNCHANGED <<svars, cvars, nvars>>

\* lines 376-387: the depth check, the visited check, the host is marked
Enter ==
    /\ stack # <<>>
    /\ Top.pc = "enter"
    /\ IF DepthReached(Top)
       THEN /\ Return(OkResult(<<>>), Append(trace_log, LogLine("WARN", Top.host, max_depth)))
            /\ UNCHANGED visited_ips
       ELSE IF AlreadyVisited(Top)
       THEN /\ Return(OkResult(<<>>), Append(trace_log, LogLine("SKIP", Top.host, 0)))
            /\ UNCHANGED visited_ips
       ELSE /\ visited_ips' = visited_ips \cup {Top.host}
            /\ trace_log' = Append(trace_log, LogLine("SEARCHING", Top.host, Top.depth + 1))
            /\ stack' = WithTop([Top EXCEPT !.pc = "search"])
            /\ tres' = tres
    /\ UNCHANGED <<root, known_servers, max_depth, execs>>
    /\ UNCHANGED <<svars, cvars, nvars>>

ExecRecord(host, kind, depth, ok, out) ==
    [host |-> host, kind |-> kind, depth |-> depth, ok |-> ok, out |-> out]

\* The number of lines the searches of this trace have printed so far;
\* MaxLines bounds it.
RECURSIVE LinesPrinted(_)
LinesPrinted(ex) ==
    IF ex = <<>> THEN 0 ELSE Len(ex[1].out) + LinesPrinted(Tail(ex))

LinesLeft == MaxLines - LinesPrinted(execs)

\* Mutant: the error of any hop is propagated to trace_server_chain.
SearchFailsUnwinding ==
    /\ stack # <<>>
    /\ Top.pc = "search"
    /\ execs' = Append(execs, ExecRecord(Top.host, "primary", Top.depth, FALSE, <<>>))
    /\ stack' = <<>>
    /\ trace_log' = trace_log
    /\ tres' = [state |-> "err", nodes |-> <<>>,
                trace_log |-> << LogLine("Error", Top.host, 0) >>,
                total_hops |-> 0, error |-> Top.host]
    /\ UNCHANGED <<root, known_servers, max_depth, visited_ips>>
    /\ UNCHANGED <<svars, cvars, nvars>>

\* line 395: the primary search fails; the error is returned
SearchFails ==
    /\ stack # <<>>
    /\ Top.pc = "search"
    /\ execs' = Append(execs, ExecRecord(Top.host, "primary", Top.depth, FALSE, <<>>))
    /\ Return(ErrResult(Top.host), trace_log)
    /\ UNCHANGED <<root, known_servers, max_depth, visited_ips>>
    /\ UNCHANGED <<svars, cvars, nvars>>

\* lines 431-436 after the searches: nothing found, or the loop begins
AfterSearch(lines, fb, log, ex) ==
    /\ execs' = ex
    /\ IF lines = <<>> /\ fb = <<>>
       THEN Return(OkResult(<<>>), Append(log, LogLine("NO_RESULTS", Top.host, Top.depth + 1)))
       ELSE /\ stack' = WithTop([Top EXCEPT !.pc = "loop", !.lines = lines,
                                            !.fallback_nodes = fb])
            /\ trace_log' = Append(log, LogLine("FOUND", Top.host, Len(lines)))
            /\ tres' = tres

\* lines 395-436: the primary search succeeds and the fallback is not needed
SearchPrimary ==
    /\ stack # <<>>
    /\ Top.pc = "search"
    /\ \E out \in PrimaryOutputs(LinesLeft) :
         /\ ~NeedsFallback(out)
         /\ AfterSearch(out, <<>>, trace_log,
                        Append(execs, ExecRecord(Top.host, "primary", Top.depth, TRUE, out)))
    /\ UNCHANGED <<root, known_servers, max_depth, visited_ips>>
    /\ UNCHANGED <<svars, cvars, nvars>>

\* Mutant: the error of the fallback search is returned, as the primary's is.
SearchFallbackPropagates ==
    /\ stack # <<>>
    /\ Top.pc = "search"
    /\ \E out \in PrimaryOutputs(LinesLeft), fbok \in BOOLEAN :
       \E fbout \in FallbackOutputs(LinesLeft - Len(out)) :
         /\ NeedsFallback(out)
         /\ fbok \/ fbout = <<>>
         /\ IF fbok
            THEN AfterSearch(out,
                        FallbackNodes(fbout, Top.host),
                        Append(trace_log, LogLine("BACKUP", Top.host, Top.depth + 1))
                            \o FallbackLog(fbout, Top.host),
                        execs \o << ExecRecord(Top.host, "primary", Top.depth, TRUE, out),
                                    ExecRecord(Top.host, "fallback", Top.depth, fbok, fbout) >>)
            ELSE /\ execs' = execs \o << ExecRecord(Top.host, "primary", Top.depth, TRUE, out),
                                         ExecRecord(Top.host, "fallback", Top.depth, fbok, fbout) >>
                 /\ Return(ErrResult(Top.host),
                           Append(trace_log, LogLine("BACKUP", Top.host, Top.depth + 1)))
    /\ UNCHANGED <<root, known_servers, max_depth, visited_ips>>
    /\ UNCHANGED <<svars, cvars, nvars>>

\* lines 395-436: the primary search succeeds and the fallback search runs; its
\* failure counts as no fallback line
SearchFallback ==
    /\ stack # <<>>
    /\ Top.pc = "search"
    /\ \E out \in PrimaryOutputs(LinesLeft), fbok \in BOOLEAN :
       \E fbout \in FallbackOutputs(LinesLeft - Len(out)) :
         /\ NeedsFallback(out)
         /\ fbok \/ fbout = <<>>
         /\ AfterSearch(out,
                        FallbackNodes(fbout, Top.host),
                        Append(trace_log, LogLine("BACKUP", Top.host, Top.depth + 1))
                            \o FallbackLog(fbout, Top.host),
                        execs \o << ExecRecord(Top.host, "primary", Top.depth, TRUE, out),
                                    ExecRecord(Top.host, "fallback", Top.depth, fbok, fbout) >>)
    /\ UNCHANGED <<root, known_servers, max_depth, visited_ips>>
    /\ UNCHANGED <<svars, cvars, nvars>>

\* Mutant: router lines are followed too.
FollowsAnyPrefix(p) == p.ip \notin visited_ips

\* line 447: the line's hop is followed
Follows(p) == IsValidChainNode(p.dus_id) /\ p.ip \notin visited_ips

\* Mutant: the next hop is not validated against the configuration.
IsKnownAlways(ip) == TRUE

\* line 449: known_servers.iter().find(|s| s.host == ip)
IsKnown(ip) == ip \in known_servers

\* lines 440-486: one turn of the loop over the primary lines, or its end
Line ==
    /\ stack # <<>>
    /\ Top.pc = "loop"
    /\ IF Top.i > Len(Top.lines)
       THEN Return(OkResult(Top.nodes \o Top.fallback_nodes), trace_log)
       ELSE LET p == ParseChainLine(Top.lines[Top.i])
            IN  IF ~p.some
                THEN /\ stack' = WithTop([Top EXCEPT !.i = @ + 1])
                     /\ UNCHANGED <<trace_log, tres>>
                ELSE LET log1 == Append(trace_log,
                                   LogLine(IF IsValidChainNode(p.dus_id)
                                           THEN "LINE_VALID" ELSE "LINE_ROUTER", p.ip, 0))
                         leaf == ChainNode(p.filename, p.dus_id, Top.host, <<>>)
                     IN  IF Follows(p)
                         THEN IF IsKnown(p.ip)
                              THEN /\ stack' = Append(WithTop([Top EXCEPT !.pc = "await"]),
                                                      NewFrame(p.ip, Top.depth + 1))
                                   /\ trace_log' = log1
                                   /\ tres' = tres
                              ELSE /\ stack' = WithTop([Top EXCEPT !.nodes = Append(@, leaf),
                                                                   !.i = @ + 1])
                                   /\ trace_log' = Append(log1, LogLine("ERROR_CONFIG", p.ip, 0))
                                   /\ tres' = tres
                         ELSE /\ stack' = WithTop([Top EXCEPT !.nodes = Append(@, leaf),
                                                              !.i = @ + 1])
                              /\ trace_log' = log1
                              /\ tres' = tres
    /\ UNCHANGED <<root, known_servers, max_depth, visited_ips, execs>>
    /\ UNCHANGED <<svars, cvars, nvars>>

TraceNext == Enter \/ SearchFails \/ SearchPrimary \/ SearchFallback \/ Line

(* ====================================================================== *)
(*                       crypto.rs: stored passwords                      *)
(* ====================================================================== *)
\* A string is the sequence of its characters' code points, a byte a number in
\* 0..255.
\* The characters passwords are made of: "a", e acute, a CJK character and an
\* emoji, of one to four UTF-8 bytes, and "A" and "=", which Base64 uses too.
PwChars == {97, 233, 23494, 128272, 65, 61}

Passwords == UNION { [1..n -> PwChars] : n \in 0..MaxPwLen }

\* The nonces OsRng is taken to produce.
Nonces == { [i \in 1..NonceLen |-> (b * i) % 256] : b \in {0, 7, 255} }

OkVal(v) == [ok |-> TRUE, val |-> v]
ErrVal(e) == [ok |-> FALSE, val |-> e]

(* ------------------------- str::as_bytes (UTF-8) ---------------------- *)
Utf8Char(cp) ==
    IF cp < 128 THEN <<cp>>
    ELSE IF cp < 2048 THEN <<192 + (cp \div 64), 128 + (cp % 64)>>
    ELSE IF cp < 65536
         THEN <<224 + (cp \div 4096), 128 + ((cp \div 64) % 64), 128 + (cp % 64)>>
    ELSE <<240 + (cp \div 262144), 128 + ((cp \div 4096) % 64),
           128 + ((cp \div 64) % 64), 128 + (cp % 64)>>

RECURSIVE AsBytes(_)
AsBytes(s) == IF s = <<>> THEN <<>> ELSE Utf8Char(s[1]) \o AsBytes(Tail(s))

(* ------------------------- String::from_utf8 -------------------------- *)
IsCont(b) == b >= 128 /\ b <= 191

\* The number of bytes of the character that begins with byte b, 0 if none does.
Utf8Width(b) ==
    IF b < 128 THEN 1
    ELSE IF b >= 194 /\ b <= 223 THEN 2
    ELSE IF b >= 224 /\ b <= 239 THEN 3
    ELSE IF b >= 240 /\ b <= 244 THEN 4
    ELSE 0

\* The code point of the w bytes at the head of b.
Utf8Value(b, w) ==
    IF w = 1 THEN b[1]
    ELSE IF w = 2 THEN (b[1] - 192) * 64 + (b[2] - 128)
    ELSE IF w = 3 THEN (b[1] - 224) * 4096 + (b[2] - 128) * 64 + (b[3] - 128)
    ELSE (b[1] - 240) * 262144 + (b[2] - 128) * 4096 + (b[3] - 128) * 64 + (b[4] - 128)

\* The head of b is a well-formed character of w bytes.
Utf8Valid(b, w) ==
    /\ w > 0
    /\ Len(b) >= w
    /\ \A k \in 2..w : IsCont(b[k])
    /\ w = 3 => (Utf8Value(b, 3) >= 2048
                  /\ ~(Utf8Value(b, 3) >= 55296 /\ Utf8Value(b, 3) <= 57343))
    /\ w = 4 => (Utf8Value(b, 4) >= 65536 /\ Utf8Value(b, 4) <= 1114111)

RECURSIVE FromUtf8(_)
FromUtf8(b) ==
    IF b = <<>> THEN OkVal(<<>>)
    ELSE LET w == Utf8Width(b[1])
         IN  IF ~Utf8Valid(b, w) THEN ErrVal("UTF-8 decode failed")
             ELSE LET rest == FromUtf8(SubSeq(b, w + 1, Len(b)))
                  IN  IF rest.ok THEN OkVal(<<Utf8Value(b, w)>> \o rest.val)
                      ELSE rest

(* ------------------------- base64 STANDARD ---------------------------- *)
\* The character of a six-bit value: A-Z, a-z, 0-9, "+", "/".
B64Char(n) ==
    IF n < 26 THEN 65 + n
    ELSE IF n < 52 THEN 97 + (n - 26)
    ELSE IF n < 62 THEN 48 + (n - 52)
    ELSE IF n = 62 THEN 43 ELSE 47

\* "="
B64Pad == 61

\* The six-bit value of a character, -1 if it has none.
B64Val(c) ==
    IF \E n \in 0..63 : B64Char(n) = c
    THEN CHOOSE n \in 0..63 : B64Char(n) = c
    ELSE 0 - 1

\* Engine::encode
RECURSIVE B64Encode(_)
B64Encode(b) ==
    IF b = <<>> THEN <<>>
    ELSE IF Len(b) = 1
         THEN <<B64Char(b[1] \div 4), B64Char((b[1] % 4) * 16), B64Pad, B64Pad>>
    ELSE IF Len(b) = 2
         THEN <<B64Char(b[1] \div 4), B64Char(((b[1] % 4) * 16) + (b[2] \div 16)),
                B64Char((b[2] % 16) * 4), B64Pad>>
    ELSE <<B64Char(b[1] \div 4), B64Char(((b[1] % 4) * 16) + (b[2] \div 16)),
           B64Char(((b[2] % 16) * 4) + (b[3] \div 64)), B64Char(b[3] % 64)>>
         \o B64Encode(SubSeq(b, 4, Len(b)))

\* The bytes of a group of four characters, the last group if last.
B64Group(g, last) ==
    LET v == [k \in 1..4 |-> B64Val(g[k])]
    IN  IF last /\ g[3] = B64Pad /\ g[4] = B64Pad
        THEN IF v[1] >= 0 /\ v[2] >= 0 /\ v[2] % 16 = 0 /\ g[1] # B64Pad /\ g[2] # B64Pad
             THEN OkVal(<<(v[1] * 4) + (v[2] \div 16)>>)
             ELSE ErrVal("Base64 decode failed")
        ELSE IF last /\ g[4] = B64Pad
        THEN IF v[1] >= 0 /\ v[2] >= 0 /\ v[3] >= 0 /\ v[3] % 4 = 0
             THEN OkVal(<<(v[1] * 4) + (v[2] \div 16),
                          ((v[2] % 16) * 16) + (v[3] \div 4)>>)
             ELSE ErrVal("Base64 decode failed")
        ELSE IF \A k \in 1..4 : v[k] >= 0
             THEN OkVal(<<(v[1] * 4) + (v[2] \div 16),
                          ((v[2] % 16) * 16) + (v[3] \div 4),
                          ((v[3] % 4) * 64) + v[4]>>)
             ELSE ErrVal("Base64 decode failed")

\* Engine::decode: padding is required and must be canonical.
RECURSIVE B64Decode(_)
B64Decode(s) ==
    IF s = <<>> THEN OkVal(<<>>)
    ELSE IF Len(s) % 4 # 0 THEN ErrVal("Base64 decode failed")
    ELSE LET g == B64Group(SubSeq(s, 1, 4), Len(s) = 4)
             rest == B64Decode(SubSeq(s, 5, Len(s)))
         IN  IF ~g.ok THEN g
             ELSE IF ~rest.ok THEN rest
             ELSE OkVal(g.val \o rest.val)

(* ---------------- Aes256Gcm, a cipher of the same interface ----------- *)
RECURSIVE SumOf(_)
SumOf(b) == IF b = <<>> THEN 0 ELSE b[1] + SumOf(Tail(b))

\* The key stream byte at position i under the key and the nonce.
KeyStream(nonce, i) == ((SumOf(nonce) * 7) + (i * 13) + 84) % 256

\* The tag of a ciphertext under the key and the nonce.
AeadTag(nonce, ct) ==
    [j \in 1..TagLen |-> (SumOf(ct) + (SumOf(nonce) * 3) + (j * 31)) % 256]

\* cipher.encrypt(nonce, plaintext): the ciphertext and its tag
AeadEncrypt(nonce, pt) ==
    LET ct == [i \in 1..Len(pt) |-> (pt[i] + KeyStream(nonce, i)) % 256]
    IN  ct \o AeadTag(nonce, ct)

\* cipher.decrypt(nonce, ciphertext): fails unless the tag is the ciphertext's
AeadDecrypt(nonce, c) ==
    IF Len(c) < TagLen THEN ErrVal("Decryption failed")
    ELSE LET ct == SubSeq(c, 1, Len(c) - TagLen)
             tag == SubSeq(c, Len(c) - TagLen + 1, Len(c))
         IN  IF tag # AeadTag(nonce, ct) THEN ErrVal("Decryption failed")
             ELSE OkVal([i \in 1..Len(ct) |-> (ct[i] + 256 - KeyStream(nonce, i)) % 256])

(* ---------------- encrypt_password / decrypt_password ----------------- *)
\* Mutant: the nonce is not stored with the ciphertext.
CombinedWithoutNonce(nonce, ciphertext) == ciphertext

\* lines 33-35: combined = nonce_bytes ++ ciphertext
Combined(nonce, ciphertext) == nonce \o ciphertext

\* encrypt_password, with the nonce OsRng gives
EncryptPassword(plaintext, nonce) ==
    IF plaintext = <<>> THEN OkVal(<<>>)
    ELSE OkVal(B64Encode(Combined(nonce, AeadEncrypt(nonce, AsBytes(plaintext)))))

\* decrypt_password
DecryptPassword(ciphertext_b64) ==
    IF ciphertext_b64 = <<>> THEN OkVal(<<>>)
    ELSE LET combined == B64Decode(ciphertext_b64)
         IN  IF ~combined.ok THEN combined
             ELSE IF Len(combined.val) < NonceLen
                  THEN ErrVal("Invalid ciphertext: too short")
             ELSE LET nonce == SubSeq(combined.val, 1, NonceLen)
                      ciphertext == SubSeq(combined.val, NonceLen + 1, Len(combined.val))
                      plaintext_bytes == AeadDecrypt(nonce, ciphertext)
                  IN  IF ~plaintext_bytes.ok THEN plaintext_bytes
                      ELSE FromUtf8(plaintext_bytes.val)

NoVal == ErrVal("none")

CryptoInit ==
    /\ password \in Passwords
    /\ nonce_bytes = <<>>
    /\ encrypted = NoVal
    /\ decrypted = NoVal
    /\ cpc = "start"

\* No password is handled.
CryptoIdle ==
    /\ password = <<>>
    /\ nonce_bytes = <<>>
    /\ encrypted = NoVal
    /\ decrypted = NoVal
    /\ cpc = "idle"

\* encrypt_password(password)
Encrypt ==
    /\ cpc = "start"
    /\ \E n \in Nonces :
         /\ nonce_bytes' = IF password = <<>> THEN <<>> ELSE n
         /\ encrypted' = EncryptPassword(password, n)
    /\ cpc' = "encrypted"
    /\ UNCHANGED <<password, decrypted>>
    /\ UNCHANGED <<svars, tvars, nvars>>

\* decrypt_password(encrypted)
Decrypt ==
    /\ cpc = "encrypted"
    /\ encrypted.ok
    /\ decrypted' = DecryptPassword(encrypted.val)
    /\ cpc' = "decrypted"
    /\ UNCHANGED <<password, nonce_bytes, encrypted>>
    /\ UNCHANGED <<svars, tvars, nvars>>

CryptoNext == Encrypt \/ Decrypt

(* ====================================================================== *)
(*        the connection of start_session and execute_ssh_for_chain       *)
(* ====================================================================== *)
\* The two operations that open a connection.
ConnOps == {"start_session", "execute_ssh_for_chain"}

\* The calls of an operation that can return an error, in program order.
ConnCalls(op) ==
    IF op = "start_session"
    THEN <<"connect", "set_nonblocking", "session_new", "try_clone", "handshake",
           "userauth_password", "channel_session", "request_pty", "shell">>
    ELSE <<"connect", "set_read_timeout", "session_new", "handshake",
           "userauth_password", "channel_session", "exec", "read_to_string">>

\* The calls that open a channel on the remote host or start something on it.
RemoteCalls == {"channel_session", "request_pty", "shell", "exec", "read_to_string"}

\* What the environment does: the call that returns an error if it is made
\* ("none": none does), and what sess.authenticated() reports once
\* userauth_password has returned.
Remotes(op) ==
    [fails : {ConnCalls(op)[k] : k \in 1..Len(ConnCalls(op))} \cup {"none"},
     authenticated : BOOLEAN]

NoConn == [op |-> "none", pc |-> "idle", ops |-> <<>>, res |-> "none"]

ConnInit ==
    \E op \in ConnOps :
        /\ remote \in Remotes(op)
        /\ conn = [op |-> op, pc |-> "connect", ops |-> <<>>, res |-> "running"]

\* No connection is being set up.
ConnIdle ==
    /\ remote = [fails |-> "none", authenticated |-> TRUE]
    /\ conn = NoConn

\* call(...).map_err(...)?: the call is made; its error is returned, otherwise
\* the operation goes on with next.
Attempt(c, next) ==
    /\ conn.pc = c
    /\ conn' = IF remote.fails = c
               THEN [conn EXCEPT !.ops = Append(@, c), !.pc = "returned", !.res = c]
               ELSE [conn EXCEPT !.ops = Append(@, c), !.pc = next]
    /\ UNCHANGED remote
    /\ UNCHANGED <<svars, tvars, cvars>>

\* TcpStream::connect
Connect ==
    Attempt("connect", IF conn.op = "start_session" THEN "set_nonblocking"
                       ELSE "set_read_timeout")

\* tcp.set_nonblocking(false), start_session only
SetNonblocking == Attempt("set_nonblocking", "session_new")

\* tcp.set_read_timeout(60 s), execute_ssh_for_chain only
SetReadTimeout == Attempt("set_read_timeout", "session_new")

\* Session::new
SessionNew ==
    Attempt("session_new", IF conn.op = "start_session" THEN "try_clone"
                           ELSE "handshake")

\* tcp.try_clone, start_session only
TryClone == Attempt("try_clone", "handshake")

\* sess.handshake
Handshake == Attempt("handshake", "userauth_password")

\* sess.userauth_password
UserauthPassword == Attempt("userauth_password", "authenticated")

\* Mutant: the result of the authentication call is trusted.
AuthenticatedUnchecked ==
    /\ conn.pc = "authenticated"
    /\ conn' = [conn EXCEPT !.pc = "channel_session"]
    /\ UNCHANGED remote
    /\ UNCHANGED <<svars, tvars, cvars>>

\* if !sess.authenticated() { return Err("Authentication failed") }
Authenticated ==
    /\ conn.pc = "authenticated"
    /\ conn' = IF ~remote.authenticated
               THEN [conn EXCEPT !.ops = Append(@, "authenticated"),
                                 !.pc = "returned", !.res = "Authentication failed"]
               ELSE [conn EXCEPT !.ops = Append(@, "authenticated"),
                                 !.pc = "channel_session"]
    /\ UNCHANGED remote
    /\ UNCHANGED <<svars, tvars, cvars>>

\* sess.channel_session
ChannelSession ==
    Attempt("channel_session", IF conn.op = "start_session" THEN "request_pty"
                               ELSE "exec")

\* channel.request_pty, start_session only
RequestPty == Attempt("request_pty", "shell")

\* channel.shell, start_session only
Shell == Attempt("shell", "set_blocking")

\* sess.set_blocking(false); the session is built, registered, its id returned
SetBlocking ==
    /\ conn.pc = "set_blocking"
    /\ conn' = [conn EXCEPT !.pc = "returned", !.res = "ok"]
    /\ UNCHANGED remote
    /\ UNCHANGED <<svars, tvars, cvars>>

\* channel.exec(command), execute_ssh_for_chain only
Exec == Attempt("exec", "read_to_string")

\* channel.read_to_string, execute_ssh_for_chain only
ReadToString == Attempt("read_to_string", "wait_close")

\* channel.wait_close().ok(); Ok(stdout)
WaitClose ==
    /\ conn.pc = "wait_close"
    /\ conn' = [conn EXCEPT !.ops = Append(@, "wait_close"), !.pc = "returned",
                            !.res = "ok"]
    /\ UNCHANGED remote
    /\ UNCHANGED <<svars, tvars, cvars>>

ConnNext ==
    \/ Connect
    \/ SetNonblocking
    \/ SetReadTimeout
    \/ SessionNew
    \/ TryClone
    \/ Handshake
    \/ UserauthPassword
    \/ Authenticated
    \/ ChannelSession
    \/ RequestPty
    \/ Shell
    \/ SetBlocking
    \/ Exec
    \/ ReadToString
    \/ WaitClose

(* ------------------------------ specification ------------------------- *)
CallerStep(c) ==
    \/ StartSetup(c)
    \/ StartInsert(c)
    \/ StartSpawn(c)
    \/ Lookup(c)
    \/ Remove(c)
    \/ Lock(c)
    \/ ChannelOp(c)
    \/ CloseStore(c)
    \/ CloseChannel(c)

\* A call that has begun goes on.
Continue(c) ==
    \/ StartInsert(c)
    \/ StartSpawn(c)
    \/ Lock(c)
    \/ ChannelOp(c)
    \/ CloseStore(c)
    \/ CloseChannel(c)

ReaderStep(s) ==
    \/ ReaderTop(s)
    \/ ReaderLock(s)
    \/ ReaderRead(s)
    \/ ReaderEmit(s)

SessionNext ==
    \/ \E c \in Callers : CallerStep(c)
    \/ \E s \in SessionIds : ReaderStep(s)

SessionOnly == SessionInit /\ TraceIdle /\ CryptoIdle /\ ConnIdle

TraceOnly == SessionInit /\ TraceInit /\ CryptoIdle /\ ConnIdle

CryptoOnly == SessionInit /\ TraceIdle /\ CryptoInit /\ ConnIdle

ConnOnly == SessionInit /\ TraceIdle /\ CryptoIdle /\ ConnInit

SpecSession == SessionOnly /\ [][SessionNext]_vars

SpecTrace == TraceOnly /\ [][TraceNext]_vars

SpecCrypto == CryptoOnly /\ [][CryptoNext]_vars

SpecConn == ConnOnly /\ [][ConnNext]_vars

\* Every remote command returns: a trace that can take a step takes one.
SpecTraceFair == TraceOnly /\ [][TraceNext]_vars /\ WF_vars(TraceNext)

SpecSessionFair ==
    /\ SessionOnly
    /\ [][SessionNext]_vars
    /\ \A s \in SessionIds : WF_vars(ReaderStep(s))
    /\ \A c \in Callers : WF_vars(Continue(c))

\* A thread that waits for a lock gets it if the lock is free again and again:
\* the reader thread re-takes the session's lock in every iteration, sleeping
\* 10 ms without it in between.
SpecSessionLockFair ==
    /\ SessionOnly
    /\ [][SessionNext]_vars
    /\ \A s \in SessionIds : WF_vars(ReaderStep(s))
    /\ \A c \in Callers : SF_vars(Continue(c))

(* ====================================================================== *)
(*                     properties of the session manager                  *)
(* ====================================================================== *)
\* This step begins the call op(x).
Begins(op, x) ==
    /\ ncalls' = ncalls + 1
    /\ \/ \E c \in Callers : /\ call[c] = Idle
                             /\ call'[c] # Idle
                             /\ call'[c].op = op
                             /\ call'[c].sid = x
       \/ call' = call /\ ret'.op = op /\ ret'.sid = x

\* In this step a close_session(x) call returns.
CloseReturns(x) ==
    /\ ret'.op = "close_session"
    /\ ret'.sid = x
    /\ \/ ncalls' = ncalls + 1 /\ call' = call
       \/ \E c \in Callers : /\ call[c].op = "close_session"
                             /\ call[c].sid = x
                             /\ call'[c] = Idle

\* x has been inserted into the registry at some time.
EverRegistered(x) ==
    \/ spawned[x] > 0
    \/ \E c \in Callers : /\ call[c].op = "start_session"
                          /\ call[c].sid = x
                          /\ call[c].pc = "spawn"

\* A close_session(x) call is running.
Closing(x) ==
    \E c \in Callers : call[c].op = "close_session" /\ call[c].sid = x

\* The state the session manager shares between threads.
shared == <<sessions, refs, shutdown, holder, poisoned, spawned, rpc, rbuf,
            consumed, events, call>>

\* C1: a send_input or resize call on an id that is not in the registry returns
\* "Session not found" and a close_session call on it returns Ok, and none of
\* them changes the registry, a lock, a flag, a channel or another thread.
C1_AbsentId ==
    [][\A x \in SessionIds :
         \A op \in {"send_input", "resize", "close_session"} :
            (Begins(op, x) /\ x \notin sessions) =>
               /\ ret' = Returned(op, x, IF op = "close_session" THEN "ok"
                                         ELSE "NotFound")
               /\ shared' = shared]_vars

\* C1 witness: resize on a session that was closed before returned NotFound.
C1_Witness ==
    /\ ret.op = "resize"
    /\ ret.res = "NotFound"
    /\ shutdown[ret.sid]
    /\ ret.sid \notin sessions

\* C2 as claimed: whenever a close_session call on a session that was registered
\* returns, the entry is absent and the shutdown flag is set.
C2_AsClaimed ==
    [][\A x \in SessionIds :
         (CloseReturns(x) /\ EverRegistered(x)) =>
            (x \notin sessions' /\ shutdown'[x])]_vars

\* C2, amended: every close_session call returns Ok and leaves the entry absent;
\* a call that finds no entry changes nothing; the call that removed the entry
\* has set the shutdown flag when it returns, so the flag is set once no
\* close_session call on the id is running.
C2_CloseIdempotent ==
    /\ [][\A x \in SessionIds :
            /\ CloseReturns(x) => (ret'.res = "ok" /\ x \notin sessions')
            /\ (Begins("close_session", x) /\ x \notin sessions) => shared' = shared
            /\ (CloseReturns(x) /\ ncalls' = ncalls) => shutdown'[x]]_vars
    /\ [](\A x \in SessionIds :
            (EverRegistered(x) /\ x \notin sessions /\ ~Closing(x)) => shutdown[x])

\* C2 witness: a second close_session call has returned Ok while the first, which
\* removed the entry, is still waiting for the session's lock.
C2_Witness ==
    \E x \in SessionIds, c \in Callers :
        /\ call[c].op = "close_session"
        /\ call[c].sid = x
        /\ call[c].pc = "lock"
        /\ ret = Returned("close_session", x, "ok")
        /\ spawned[x] = 1
        /\ ~shutdown[x]

\* C3: a started session has exactly one reader thread; with the shutdown flag
\* set the thread begins at most one sleep, and it terminates.
C3_ReaderStops ==
    /\ [](\A x \in SessionIds :
            /\ spawned[x] <= 1
            /\ (rpc[x] # "none") = (spawned[x] = 1)
            /\ ret = Returned("start_session", x, "ok") => spawned[x] = 1
            /\ sleepsAfter[x] <= 1)
    /\ \A x \in SessionIds : (shutdown[x] ~> rpc[x] = "done")

\* C3 witness: the reader slept once after the flag was set, then terminated.
C3_Witness ==
    \E x \in SessionIds :
        /\ shutdown[x]
        /\ sleepsAfter[x] = 1
        /\ rpc[x] = "done"

\* The threads that are at an access to the channel of session x.
AtChannel(x) ==
    { c \in Callers : call[c].sid = x /\ call[c].pc \in {"chan", "eof"} }
    \cup (IF rpc[x] = "read" THEN {Reader} ELSE {})

\* C4: at most one thread is at an access to a session's channel, and it holds
\* that session's lock.
C4_ChannelExclusive ==
    \A x \in SessionIds :
        /\ Cardinality(AtChannel(x)) <= 1
        /\ \A th \in AtChannel(x) : holder[x] = th

\* C4 witness: the reader waits for the lock while a caller writes to the channel.
C4_Witness ==
    \E x \in SessionIds, c \in Callers :
        /\ call[c].sid = x
        /\ call[c].op = "send_input"
        /\ call[c].pc = "chan"
        /\ rpc[x] = "lock"


(* ====================================================================== *)
(*                      properties of the chain tracer                    *)
(* ====================================================================== *)
\* The loop of the innermost call is at a line of the primary output.
AtLine == stack # <<>> /\ Top.pc = "loop" /\ Top.i <= Len(Top.lines)

\* The line it is at.
CurLine == Top.lines[Top.i]

\* A business id with prefix B or C.
ValidId(id) == id # <<>> /\ id[1] \in {"B", "C"}

\* The loop is at a line of three tokens with a valid business id.
AtValidLine == AtLine /\ Len(CurLine) >= 3 /\ ValidId(CurLine[2])

\* This step adds a line with this tag, about this host, to the trace log.
Logs(tag, h) ==
    \E k \in (Len(trace_log) + 1)..Len(trace_log') :
        trace_log'[k].tag = tag /\ trace_log'[k].host = h

\* This step appends to the nodes of the innermost call a node with no children
\* for the line the loop is at, and goes to the next line.
AppendsLeaf ==
    /\ Len(stack') = Len(stack)
    /\ stack'[Len(stack)].pc = "loop"
    /\ stack'[Len(stack)].i = Top.i + 1
    /\ Len(stack'[Len(stack)].nodes) = Len(Top.nodes) + 1
    /\ LET n == stack'[Len(stack)].nodes[Len(Top.nodes) + 1]
       IN  /\ n.dus_id = CurLine[2]
           /\ n.ip = Top.host
           /\ n.children = <<>>
    /\ SubSeq(stack'[Len(stack)].nodes, 1, Len(Top.nodes)) = Top.nodes

\* The searches of kind kind executed on host h.
Execs(kind, h) ==
    { k \in 1..Len(execs) : execs[k].kind = kind /\ execs[k].host = h }

\* The hosts a primary search was executed on.
Contacted == { h \in Hosts : Execs("primary", h) # {} }

RECURSIVE Childless(_)
Childless(nodes) ==
    \/ nodes = <<>>
    \/ nodes[1].children = <<>> /\ Childless(Tail(nodes))

\* C5 as claimed: when the loop comes to a valid line whose peer has been visited
\* in this trace, the node gets no children and a skip line naming the peer is
\* logged; the host is counted once in total_hops.
C5_CycleGuardLogsSkip ==
    [][(AtValidLine /\ CurLine[3] \in visited_ips /\ stack' # stack) =>
          /\ AppendsLeaf
          /\ Logs("SKIP", CurLine[3])
          /\ visited_ips' = visited_ips]_vars

\* C6: every host has its primary search executed at most once, a valid line
\* whose peer is the current host or a visited host gets a node without children
\* and no remote call, and total_hops of a successful trace is the number of
\* hosts searched; a chain 1 -> 2 where the line of 2 names 2 gives a single
\* child without grandchildren and total_hops 2.
C6_VisitedOnce ==
    /\ [](\A h \in Hosts : Cardinality(Execs("primary", h)) <= 1)
    /\ [](tres.state = "ok" =>
            /\ tres.total_hops = Cardinality(Contacted)
            /\ Contacted = visited_ips)
    /\ [][(AtValidLine /\ stack' # stack
             /\ (CurLine[3] = Top.host \/ CurLine[3] \in visited_ips)) =>
            (AppendsLeaf /\ execs' = execs /\ visited_ips' = visited_ips)]_vars
    /\ []((/\ tres.state = "ok"
           /\ Len(execs) = 2
           /\ execs[1] = ExecRecord(1, "primary", 0, TRUE, <<HopLine(2)>>)
           /\ execs[2] = ExecRecord(2, "primary", 1, TRUE,
                            << << <<"./", "./", "alt">>, <<"C", "1">>, 2 >> >>)) =>
            /\ Len(tres.nodes) = 1
            /\ Len(tres.nodes[1].children) = 1
            /\ tres.nodes[1].children[1].children = <<>>
            /\ tres.total_hops = 2)

\* C6 witness: the trace 1 -> 2, the line of 2 naming 2, has ended.
C6_Witness ==
    /\ tres.state = "ok"
    /\ Len(execs) = 2
    /\ execs[1].out = <<HopLine(2)>>
    /\ execs[2].host = 2
    /\ execs[2].out = << << <<"./", "./", "alt">>, <<"C", "1">>, 2 >> >>
    /\ tres.total_hops = 2

\* A call of trace_chain_recursive begins at a depth that is not allowed.
AtDepthLimit == stack # <<>> /\ Top.pc = "enter" /\ Top.depth >= max_depth

\* C7: no command is executed on a host reached at depth >= max_depth; there the
\* call logs a warning and returns no nodes, and the trace does not fail; with
\* max_depth 1 the result holds only the nodes found on the start host, none
\* with children, and no other host is contacted.
C7_DepthGuard ==
    /\ [](\A k \in 1..Len(execs) : execs[k].depth < max_depth)
    /\ [][(AtDepthLimit /\ stack' # stack) =>
            /\ execs' = execs
            /\ visited_ips' = visited_ips
            /\ Logs("WARN", Top.host)
            /\ tres'.state # "err"
            /\ Len(stack) > 1 =>
                 /\ Len(stack') = Len(stack) - 1
                 /\ LET par == stack'[Len(stack')]
                    IN  /\ par.pc = "loop"
                        /\ par.nodes[Len(par.nodes)].children = <<>>]_vars
    /\ []((max_depth = 1 /\ tres.state = "ok") =>
            /\ Contacted = {root}
            /\ Childless(tres.nodes)
            /\ \A k \in 1..Len(tres.nodes) : tres.nodes[k].ip = root)

\* C7 witness: with max_depth 1 the trace of a chain 1 -> 2 has ended, 2 was
\* known, and the warning is in the log.
C7_Witness ==
    /\ max_depth = 1
    /\ tres.state = "ok"
    /\ 2 \in known_servers
    /\ execs[1].out = <<HopLine(2)>>
    /\ \E k \in 1..Len(tres.trace_log) :
         tres.trace_log[k].tag = "WARN" /\ tres.trace_log[k].host = 2
    /\ Len(tres.nodes) = 1

\* The entries of an output: its lines of at least three tokens.
Entries(out) == { k \in 1..Len(out) : Len(out[k]) >= 3 }

\* The output has no entry, or router entries only.
EmptyOrRouterOnly(out) ==
    \A k \in Entries(out) : out[k][2] # <<>> /\ out[k][2][1] = "G"

\* The k-th search is followed by the fallback search on the same host.
FallbackFollows(k) ==
    /\ k < Len(execs)
    /\ execs[k + 1].kind = "fallback"
    /\ execs[k + 1].host = execs[k].host

OnlyConfiguredContacted ==
    \A k \in 1..Len(execs) : execs[k].host \in known_servers \cup {root}

\* What C9 says of a step of the loop at a valid line with peer ip.
UnknownHopHandled(ip) ==
    /\ AppendsLeaf
    /\ stack'[Len(stack)].nodes[Len(Top.nodes) + 1].filename = TrimStartMatches(CurLine[1])
    /\ execs' = execs
    /\ visited_ips' = visited_ips
    /\ Logs("ERROR_CONFIG", ip)
    /\ tres' = tres

\* C9 as claimed: a valid line whose peer is not in known_servers gives a node
\* for the queried host without children, no remote call, a configuration
\* diagnostic naming the peer, and the loop goes on with the next line.
C9_AsClaimed ==
    [][(AtValidLine /\ CurLine[3] \notin known_servers /\ stack' # stack) =>
          UnknownHopHandled(CurLine[3])]_vars

\* C9, amended: the same, for a peer that has not been visited in this trace
\* (a visited peer outside known_servers can only be the start host, and its
\* line gets the node but no diagnostic); and no command is ever executed on a
\* host that is neither in known_servers nor the start host.
C9_UnknownHop ==
    /\ [][(AtValidLine /\ CurLine[3] \notin known_servers /\ stack' # stack) =>
            IF CurLine[3] \notin visited_ips
            THEN UnknownHopHandled(CurLine[3])
            ELSE /\ CurLine[3] = root
                 /\ AppendsLeaf
                 /\ execs' = execs
                 /\ ~Logs("ERROR_CONFIG", CurLine[3])]_vars
    /\ []OnlyConfiguredContacted

\* C9 witness: the start host printed a line to an unknown host and another
\* line; the trace ended with the diagnostic and a node for each line.
C9_Witness ==
    /\ tres.state = "ok"
    /\ Len(execs[1].out) = 2
    /\ execs[1].out[1] = HopLine(3)
    /\ 3 \notin known_servers
    /\ \E k \in 1..Len(tres.trace_log) :
         tres.trace_log[k].tag = "ERROR_CONFIG" /\ tres.trace_log[k].host = 3
    /\ Len(tres.nodes) = 2
    /\ tres.nodes[1] = ChainNode(<<"hop", 3>>, <<"B", "1">>, 1, <<>>)
    /\ Contacted = {1}

\* The token without its leading "./" pieces.
Stripped(tok) ==
    LET n == CHOOSE k \in 0..Len(tok) :
                 /\ \A j \in 1..k : tok[j] = "./"
                 /\ k < Len(tok) => tok[k + 1] # "./"
    IN  SubSeq(tok, n + 1, Len(tok))

\* The triples of the lines of at least three tokens, in order.
RECURSIVE Triples(_)
Triples(ls) ==
    IF ls = <<>> THEN <<>>
    ELSE (IF Len(ls[1]) >= 3
          THEN << <<Stripped(ls[1][1]), ls[1][2], ls[1][3]>> >>
          ELSE <<>>) \o Triples(Tail(ls))

\* The nodes the loop of call f has made are those of the triples of the lines
\* it has passed.
NodesAreTriples(f) ==
    LET tr == Triples(SubSeq(f.lines, 1, f.i - 1))
    IN  /\ Len(f.nodes) = Len(tr)
        /\ \A k \in 1..Len(tr) : /\ f.nodes[k].filename = tr[k][1]
                                 /\ f.nodes[k].dus_id = tr[k][2]
                                 /\ f.nodes[k].ip = f.host

\* C10: a line of fewer than three tokens makes no node, no recursion, no log
\* line and no error, the loop going on with the next line; the nodes of a host
\* are those of its lines of at least three tokens, in order, each with the
\* first token stripped of its leading "./" and the second token; the third
\* token is the peer the loop decides on.
C10_ParseRobust ==
    /\ [][(AtLine /\ Len(CurLine) < 3 /\ stack' # stack) =>
            /\ stack' = WithTop([Top EXCEPT !.i = @ + 1])
            /\ UNCHANGED <<trace_log, execs, visited_ips, tres>>]_vars
    /\ [](\A d \in 1..Len(stack) :
            stack[d].pc \in {"loop", "await"} => NodesAreTriples(stack[d]))
    /\ [][(AtLine /\ Len(CurLine) >= 3 /\ stack' # stack) =>
            \/ Logs("LINE_VALID", CurLine[3])
            \/ Logs("LINE_ROUTER", CurLine[3])]_vars

\* C10 witness: the start host printed a two-token line and then "././alt C1 2";
\* the trace ended with the one node "alt".
C10_Witness ==
    /\ tres.state = "ok"
    /\ Len(execs[1].out) = 2
    /\ Len(execs[1].out[1]) = 2
    /\ execs[1].out[2][1] = <<"./", "./", "alt">>
    /\ Len(tres.nodes) = 1
    /\ tres.nodes[1].filename = <<"alt">>
    /\ tres.nodes[1].dus_id = <<"C", "1">>

\* The loop of the innermost call has passed its last line.
AtEnd == stack # <<>> /\ Top.pc = "loop" /\ Top.i > Len(Top.lines)

\* The list the innermost call returns in this step, as its caller receives it.
ReturnedNodes ==
    IF Len(stack) = 1 THEN tres'.nodes
    ELSE LET par == stack'[Len(stack) - 1]
         IN  par.nodes[Len(par.nodes)].children

\* What the fallback search on host h printed (nothing when it did not run).
FallbackOutOf(h) ==
    IF Execs("fallback", h) = {} THEN <<>>
    ELSE execs[CHOOSE k \in Execs("fallback", h) : TRUE].out

\* The lines are router lines, and there is one at least.
RouterOnly(lines) ==
    /\ lines # <<>>
    /\ \A k \in 1..Len(lines) :
         Len(lines[k]) >= 3 /\ lines[k][2] # <<>> /\ lines[k][2][1] = "G"

\* One node without children on host h per line, from its first two tokens.
LeafPerLine(lines, h) ==
    [k \in 1..Len(lines) |-> ChainNode(Stripped(lines[k][1]), lines[k][2], h, <<>>)]

\* The (filename, business id) pairs of a fallback output.
PairsOf(out) == SelectSeq(out, LAMBDA l : Len(l) >= 2)

\* One node without children on host h per pair.
LeafPerPair(out, h) ==
    [k \in 1..Len(PairsOf(out)) |->
        ChainNode(PairsOf(out)[k][1], PairsOf(out)[k][2], h, <<>>)]

\* C11: a host whose primary search printed router lines only has the fallback
\* search run, and returns a node without children per router line, in order,
\* followed by a node without children per fallback pair, with the host as ip;
\* on every host the fallback nodes are the last of the list returned, after a
\* node per primary line of three tokens.
C11_RouterThenFallback ==
    [][(AtEnd /\ stack' # stack) =>
          LET fb == LeafPerPair(FallbackOutOf(Top.host), Top.host)
              n == Len(ReturnedNodes) - Len(fb)
          IN  /\ RouterOnly(Top.lines) =>
                    /\ Execs("fallback", Top.host) # {}
                    /\ ReturnedNodes = LeafPerLine(Top.lines, Top.host) \o fb
              /\ n = Len(Triples(Top.lines))
              /\ SubSeq(ReturnedNodes, n + 1, Len(ReturnedNodes)) = fb]_vars

\* C11 witness: the start host printed a router line and the fallback search a
\* pair; the trace returned the router node and then the fallback node.
C11_Witness ==
    /\ tres.state = "ok"
    /\ Len(execs) = 2
    /\ execs[1].out = << << <<"./", "gw">>, <<"G", "1">>, 2 >> >>
    /\ execs[2].kind = "fallback"
    /\ tres.nodes = << ChainNode(<<"gw">>, <<"G", "1">>, 1, <<>>),
                       ChainNode(<<"app">>, <<"B", "9">>, 1, <<>>) >>

\* The line is in the log.
InLog(log, line) == \E j \in 1..Len(log) : log[j] = line

\* C12 as claimed: when the primary search on the start host failed, the result
\* has its error set, no nodes, and a log that still holds the lines recorded
\* before the failure (begin, trace id, start host, log path).
C12_PartialLogKept ==
    tres.state = "err" =>
        /\ tres.error # 0
        /\ tres.nodes = <<>>
        /\ \A k \in 1..4 : InLog(tres.trace_log, LogHeader(root)[k])

\* The primary search on host h has failed.
PrimaryFailed(h) == \E k \in Execs("primary", h) : ~execs[k].ok

\* In this step the primary search of the innermost call fails.
SearchFailing ==
    /\ stack # <<>>
    /\ Top.pc = "search"
    /\ Len(execs') = Len(execs) + 1
    /\ ~execs'[Len(execs')].ok

\* C13: when the primary search fails on a host below the start host, the trace
\* goes on: the failure is logged, the node of the line that led there gets no
\* children and the loop of the calling host goes to its next line; the result
\* has its error set exactly when the primary search on the start host failed.
C13_HopFailureContained ==
    /\ [][(SearchFailing /\ Len(stack) > 1) =>
            /\ tres' = tres
            /\ Logs("ERROR_TRACE", Top.host)
            /\ Len(stack') = Len(stack) - 1
            /\ LET par == stack[Len(stack) - 1]
                   par2 == stack'[Len(stack')]
               IN  /\ par2.pc = "loop"
                   /\ par2.i = par.i + 1
                   /\ par2.lines = par.lines
                   /\ Len(par2.nodes) = Len(par.nodes) + 1
                   /\ par2.nodes[Len(par2.nodes)].children = <<>>]_vars
    /\ [](tres.state # "running" =>
            /\ (tres.state = "err") = PrimaryFailed(root)
            /\ (tres.error # 0) = PrimaryFailed(root))

\* C13 witness: the search on host 2 failed, the trace ended without error, the
\* failure is in its log, and the line after the one to host 2 has its node.
C13_Witness ==
    /\ tres.state = "ok"
    /\ tres.error = 0
    /\ PrimaryFailed(2)
    /\ execs[1].out[1] = HopLine(2)
    /\ Len(execs[1].out) = 2
    /\ InLog(tres.trace_log, LogLine("ERROR_TRACE", 2, 2))
    /\ Len(tres.nodes) = 2
    /\ tres.nodes[1].children = <<>>

(* ====================================================================== *)
(*                      properties of the reader thread                   *)
(* ====================================================================== *)
\* The output events of session s, in emission order.
Outputs(s) == SelectSeq(events[s], LAMBDA e : e.kind = "output")

\* The exit events of session s.
Exits(s) == SelectSeq(events[s], LAMBDA e : e.kind = "exit")

RECURSIVE Flatten(_)
Flatten(seqs) == IF seqs = <<>> THEN <<>> ELSE seqs[1] \o Flatten(Tail(seqs))

\* The data of the output events of session s, one after the other.
OutputText(s) == Flatten([k \in 1..Len(Outputs(s)) |-> Outputs(s)[k].data])

\* The chunks of session s that have been emitted: all of them, but for the one
\* the reader thread has read and not emitted yet.
EmittedChunks(s) ==
    IF rpc[s] = "emit" THEN SubSeq(chunks[s], 1, Len(chunks[s]) - 1) ELSE chunks[s]

\* The text of a byte sequence whose characters are all complete.
RECURSIVE TextOf(_)
TextOf(b) ==
    IF b = <<>> THEN <<>>
    ELSE IF b[1] = "m1" THEN <<"M">> \o TextOf(SubSeq(b, 3, Len(b)))
    ELSE <<b[1]>> \o TextOf(Tail(b))

\* The bytes end with a complete character.
Complete(b) == b = <<>> \/ b[Len(b)] # "m1"

\* C14 as claimed: the data of a session's output events, one after the other,
\* is the text of the chunks read, one after the other.
C14_AsClaimed ==
    \A s \in SessionIds :
        Complete(Flatten(EmittedChunks(s))) =>
            OutputText(s) = TextOf(Flatten(EmittedChunks(s)))

\* C14, amended: the output events of a session are, in the order of the reads,
\* one per chunk read, each with the lossy decoding of its own chunk (a character
\* split between two chunks is replaced), none dropped, duplicated or
\* reordered, whatever calls are made meanwhile; the chunks are the bytes of the
\* remote shell's stream in order.
C14_OutputPerChunk ==
    \A s \in SessionIds :
        /\ Len(Outputs(s)) = Len(EmittedChunks(s))
        /\ \A k \in 1..Len(Outputs(s)) :
              /\ Outputs(s)[k].data = FromUtf8Lossy(chunks[s][k])
              /\ Outputs(s)[k].sid = s
        /\ Flatten(chunks[s]) = StreamBytes(1, consumed[s])
        /\ rpc[s] = "emit" => (chunks[s] # <<>> /\ rbuf[s] = chunks[s][Len(chunks[s])])

\* C14 witness: a two-byte character came in two reads, a send_input call
\* returned in between, and both chunks have been emitted.
C14_Witness ==
    \E s \in SessionIds :
        /\ chunks[s] = << <<"m1">>, <<"m2">> >>
        /\ Len(Outputs(s)) = 2
        /\ ret = Returned("send_input", s, "ok")

\* C15: when a read returns zero bytes the reader thread emits an exit event
\* with its own session id and its loop ends, the channel not being read again;
\* a session has one exit event at most, emitted exactly when a read returned
\* zero bytes, and it is the last event of the session.
C15_ExitOnce ==
    /\ [](\A s \in SessionIds :
            /\ Len(Exits(s)) <= 1
            /\ (ended[s] = "eof") = (Exits(s) # <<>>)
            /\ Exits(s) # <<>> =>
                  /\ events[s][Len(events[s])] = [kind |-> "exit", sid |-> s, data |-> <<>>]
                  /\ rpc[s] = "done"
            /\ ended[s] # "no" => (rpc[s] = "done" /\ holder[s] # Reader))
    /\ [][\A s \in SessionIds :
            /\ rpc[s] = "done" => rpc'[s] = "done"
            /\ Exits(s) # <<>> => (events'[s] = events[s] /\ chunks'[s] = chunks[s])
            /\ (ended[s] = "no" /\ ended'[s] = "eof") =>
                  (rpc[s] = "read" /\ events'[s] = Append(events[s],
                                        [kind |-> "exit", sid |-> s, data |-> <<>>]))]_vars

\* C15 witness: a session's reader emitted an output event, then read zero
\* bytes, emitted the exit event and ended.
C15_Witness ==
    \E s \in SessionIds :
        /\ ended[s] = "eof"
        /\ Len(Outputs(s)) = 1
        /\ Len(events[s]) = 2
        /\ events[s][2].kind = "exit"
        /\ rpc[s] = "done"

(* ====================================================================== *)
(*                  properties of the session manager, II                 *)
(* ====================================================================== *)
\* In this step the call of caller c returns.
Returns(c) == call[c] # Idle /\ call'[c] = Idle

\* In this step a call begins and returns at once.
ReturnsAtOnce == ncalls' = ncalls + 1 /\ call' = call

\* C16: a start_session call one of whose steps fails returns the error, and
\* neither registers a session nor starts a reader thread; a session is
\* registered only by a start_session call whose steps all succeeded, the
\* reader thread is started by that call after it registered the session, one
\* thread per session, and then the call returns the id.
C16_StartFailsFast ==
    /\ [][(ReturnsAtOnce /\ ret'.op = "start_session") =>
            /\ ret'.res \in SetupOutcomes \ {"ok"}
            /\ ret'.sid = nextId'
            /\ ret'.sid \notin sessions'
            /\ spawned'[ret'.sid] = 0
            /\ rpc'[ret'.sid] = "none"
            /\ UNCHANGED <<sessions, spawned, rpc, holder, events>>]_vars
    /\ [][\A x \in SessionIds :
            /\ (x \notin sessions /\ x \in sessions') =>
                  \E c \in Callers :
                      /\ call[c] = [op |-> "start_session", sid |-> x, pc |-> "insert"]
                      /\ call'[c].pc = "spawn"
                      /\ spawned[x] = 0
            /\ spawned'[x] # spawned[x] =>
                  \E c \in Callers :
                      /\ call[c] = [op |-> "start_session", sid |-> x, pc |-> "spawn"]
                      /\ Returns(c)
                      /\ ret' = Returned("start_session", x, "ok")
                      /\ spawned'[x] = 1
                      /\ rpc[x] = "none"]_vars
    /\ [](\A x \in SessionIds :
            /\ x \in sessions => x <= nextId
            /\ (ret.op = "start_session" /\ ret.sid = x /\ ret.res # "ok") =>
                  (x \notin sessions /\ spawned[x] = 0))

\* C16 witness: a start_session call failed at the shell request; nothing is
\* registered and no reader thread runs.
C16_Witness ==
    /\ ret.op = "start_session"
    /\ ret.res = "shell"
    /\ ret.sid \notin sessions
    /\ spawned[ret.sid] = 0
    /\ rpc[ret.sid] = "none"

\* C17 as claimed: send_input returns ok, NotFound or LockFailed.
C17_ThreeOutcomes ==
    ret.op = "send_input" => ret.res \in {"ok", "NotFound", "LockFailed"}

\* C17, amended: send_input returns ok, NotFound, LockFailed or the error of
\* the write on the channel; NotFound exactly when the id is not registered at
\* the lookup, LockFailed only for a poisoned lock, and ok or the write error
\* after a write on the session's channel made while holding its lock.
C17_FourOutcomes ==
    /\ [](ret.op = "send_input" =>
            ret.res \in {"ok", "NotFound", "LockFailed", "ChannelError"})
    /\ [][\A x \in SessionIds :
            /\ (Begins("send_input", x) /\ call' = call) =>
                  (x \notin sessions /\ ret'.res = "NotFound")
            /\ (Begins("send_input", x) /\ call' # call) => (x \in sessions /\ ret' = ret)
            /\ \A c \in Callers :
                 (Returns(c) /\ call[c].op = "send_input" /\ call[c].sid = x) =>
                    /\ ret'.op = "send_input" /\ ret'.sid = x
                    /\ ret'.res # "NotFound"
                    /\ ret'.res = "LockFailed" => (call[c].pc = "lock" /\ x \in poisoned)
                    /\ ret'.res \in {"ok", "ChannelError"} =>
                          /\ call[c].pc = "chan"
                          /\ holder[x] = c
                          /\ holder'[x] = NoThread]_vars

\* C17 witness: a send_input call on a registered session returned the error
\* of the write on the channel.
C17_Witness ==
    /\ ret.op = "send_input"
    /\ ret.res = "ChannelError"
    /\ spawned[ret.sid] = 1

(* ====================================================================== *)
(*                     properties of the password store                   *)
(* ====================================================================== *)
\* C18: decrypt_password(encrypt_password(p)) = p for every password p, also of
\* characters outside ASCII; the encrypted value of a non-empty p differs from
\* p; the empty string is encrypted to the empty string and decrypted to it.
C18_RoundTrip ==
    /\ cpc \in {"encrypted", "decrypted"} =>
          /\ encrypted.ok
          /\ (password = <<>>) = (encrypted.val = <<>>)
          /\ password # <<>> => encrypted.val # password
    /\ cpc = "decrypted" =>
          /\ decrypted.ok
          /\ decrypted.val = password

\* C18 witness: a password of a CJK character and an emoji has been encrypted
\* and decrypted.
C18_Witness ==
    /\ cpc = "decrypted"
    /\ password = <<23494, 128272>>
    /\ decrypted.ok
    /\ Len(encrypted.val) = 48

(* ====================================================================== *)
(*                 properties of the session manager, III                 *)
(* ====================================================================== *)
\* C19 as claimed: once the reader thread of a session has read the remote end
\* of stream, a send_input or resize call on its id returns NotFound.
C19_AsClaimed ==
    [][\A x \in SessionIds : \A op \in {"send_input", "resize"} :
          (ended[x] = "eof" /\ Begins(op, x)) =>
              (call' = call /\ ret' = Returned(op, x, "NotFound"))]_vars

\* C19, amended: at the remote end of stream the reader thread emits the exit
\* event and ends, and the registry entry stays: only close_session removes an
\* entry, and a send_input or resize call on the id returns NotFound exactly
\* when a close_session call has removed it.
C19_EntryStaysUntilClose ==
    /\ [](\A x \in SessionIds : ended[x] = "eof" => rpc[x] = "done")
    /\ [][\A x \in SessionIds :
            /\ (ended[x] = "no" /\ ended'[x] = "eof") => sessions' = sessions
            /\ (x \in sessions /\ x \notin sessions') =>
                  \E c \in Callers : /\ call[c] = Idle
                                     /\ call'[c].op = "close_session"
                                     /\ call'[c].sid = x
            /\ \A op \in {"send_input", "resize"} :
                 (ended[x] = "eof" /\ Begins(op, x)) =>
                    IF x \in sessions
                    THEN \E c \in Callers : call'[c] = [op |-> op, sid |-> x, pc |-> "lock"]
                    ELSE call' = call /\ ret' = Returned(op, x, "NotFound")]_vars

\* C19 witness: the reader thread of a session has ended at the end of stream,
\* the session is still registered, and a send_input call is at its channel.
C19_Witness ==
    \E x \in SessionIds, c \in Callers :
        /\ ended[x] = "eof"
        /\ x \in sessions
        /\ call[c] = [op |-> "send_input", sid |-> x, pc |-> "chan"]
        /\ holder[x] = c

\* C20 as claimed: a thread holds the lock of a session only while it is at an
\* access to the session's channel; the reader thread holds it neither when it
\* begins a sleep nor when it emits an event.
C20_LockDiscipline ==
    /\ [](\A x \in SessionIds :
            /\ holder[x] = Reader => rpc[x] = "read"
            /\ \A c \in Callers :
                 holder[x] = c => (call[c].sid = x /\ call[c].pc \in {"chan", "eof"})
            /\ rpc[x] \in {"sleep", "emit", "top", "done"} => holder[x] # Reader)
    /\ [][\A x \in SessionIds : events'[x] # events[x] => holder[x] # Reader]_vars

(* ====================================================================== *)
(*                   properties of the reader thread, II                  *)
(* ====================================================================== *)
\* C21: when a read fails with an error other than WouldBlock, the reader
\* thread's loop ends in that step, without an event, and the session gets no
\* event afterwards, neither an output nor an exit event; WouldBlock does not
\* end the loop.
C21_ReadErrorSilent ==
    /\ [][\A s \in SessionIds :
            /\ (ended[s] = "no" /\ ended'[s] = "err") =>
                  /\ rpc[s] = "read"
                  /\ rpc'[s] = "done"
                  /\ events'[s] = events[s]
                  /\ holder'[s] = NoThread
            /\ ended[s] = "err" =>
                  /\ events'[s] = events[s]
                  /\ chunks'[s] = chunks[s]
                  /\ rpc'[s] = "done"
                  /\ ended'[s] = "err"
            /\ (rpc[s] = "read" /\ rpc'[s] = "sleep") =>
                  (ended'[s] = "no" /\ events'[s] = events[s])]_vars
    /\ [](\A s \in SessionIds :
            ended[s] = "err" => (Exits(s) = <<>> /\ rpc[s] = "done"))

\* C21 witness: the reader thread emitted an output event, a later read failed,
\* and a close_session call on the session has returned since; the output event
\* is the session's only event.
C21_Witness ==
    \E s \in SessionIds :
        /\ ended[s] = "err"
        /\ Len(events[s]) = 1
        /\ events[s][1].kind = "output"
        /\ shutdown[s]
        /\ ret = Returned("close_session", s, "ok")

(* ====================================================================== *)
(*                    properties of the chain tracer, II                  *)
(* ====================================================================== *)
\* In this step the primary search of the innermost call succeeds.
SearchSucceeding ==
    /\ stack # <<>>
    /\ Top.pc = "search"
    /\ Len(execs') > Len(execs)
    /\ execs'[Len(execs) + 1].ok

\* The output has no entry with a valid business id (prefix B or C).
NoValidEntry(out) == \A k \in Entries(out) : ~ValidId(out[k][2])

\* C22 as claimed: after a primary search that succeeded and printed no line,
\* or only lines whose business id is not valid (prefix neither B nor C, G or
\* another), the fallback search runs on the host.
C22_AsClaimed ==
    \A k \in 1..Len(execs) :
        (execs[k].kind = "primary" /\ execs[k].ok /\ NoValidEntry(execs[k].out))
            => FallbackFollows(k)

\* C22, amended: the fallback search runs on a host, right after its primary
\* search, when that search printed no entry or only entries with prefix G; an
\* entry with another prefix that is not valid either (neither B, C nor G)
\* keeps the fallback search from running, and is not followed.
C22_FallbackOnRouterOnly ==
    [][SearchSucceeding =>
          LET out == execs'[Len(execs) + 1].out
              ran == Len(execs') = Len(execs) + 2
          IN  /\ execs'[Len(execs) + 1].kind = "primary"
              /\ execs'[Len(execs) + 1].host = Top.host
              /\ Len(execs') <= Len(execs) + 2
              /\ ran => /\ execs'[Len(execs) + 2].kind = "fallback"
                        /\ execs'[Len(execs) + 2].host = Top.host
              /\ EmptyOrRouterOnly(out) => ran
              /\ (\E k \in Entries(out) : out[k][2][1] \notin {"B", "C", "G"}) =>
                    /\ ~ran
                    /\ stack' # <<>>
                    /\ stack'[Len(stack')].fallback_nodes = <<>>]_vars

\* C22 witness: the start host printed one entry, with prefix X; no fallback
\* search ran, and the trace ended with the one node, without children.
C22_Witness ==
    /\ tres.state = "ok"
    /\ Len(execs) = 1
    /\ execs[1].out = << << <<"misc">>, <<"X", "1">>, 2 >> >>
    /\ tres.nodes = << ChainNode(<<"misc">>, <<"X", "1">>, 1, <<>>) >>

\* The fallback search on host h has failed.
FallbackFailed(h) == \E k \in Execs("fallback", h) : ~execs[k].ok

\* In this step the fallback search of the innermost call fails.
FallbackFailing ==
    /\ stack # <<>>
    /\ Top.pc = "search"
    /\ Len(execs') = Len(execs) + 2
    /\ execs'[Len(execs) + 2].kind = "fallback"
    /\ ~execs'[Len(execs) + 2].ok

\* This step adds a line with this tag to the trace log.
LogsTag(tag) ==
    \E k \in (Len(trace_log) + 1)..Len(trace_log') : trace_log'[k].tag = tag

\* C23: when the fallback search fails, the call goes on as if it had printed
\* nothing: there are no fallback nodes, no error is returned to the caller or
\* by the trace and none is logged; with no primary line the call returns an
\* empty list, otherwise its loop begins on the primary lines, and the list it
\* returns is the nodes of the primary lines, unchanged.
C23_FallbackFailureSwallowed ==
    /\ [][FallbackFailing =>
            LET out == execs'[Len(execs) + 1].out
            IN  /\ tres'.state # "err"
                /\ ~LogsTag("ERROR_TRACE")
                /\ ~LogsTag("FALLBACK_FOUND")
                /\ visited_ips' = visited_ips
                /\ IF out = <<>>
                   THEN /\ Len(stack') = Len(stack) - 1
                        /\ LogsTag("NO_RESULTS")
                        /\ ReturnedNodes = <<>>
                   ELSE stack' = WithTop([Top EXCEPT !.pc = "loop", !.lines = out])]_vars
    /\ [][(AtEnd /\ stack' # stack /\ FallbackFailed(Top.host)) =>
            /\ ReturnedNodes = Top.nodes
            /\ ReturnedNodes = LeafPerLine(SelectSeq(Top.lines, LAMBDA l : Len(l) >= 3),
                                           Top.host)]_vars
    /\ [](tres.state = "err" => \A h \in Hosts : ~FallbackFailed(h))

\* C23 witness: the start host printed a router line and its fallback search
\* failed; the trace ended without error, with the router node alone.
C23_Witness ==
    /\ tres.state = "ok"
    /\ tres.error = 0
    /\ Len(execs) = 2
    /\ execs[2].kind = "fallback"
    /\ ~execs[2].ok
    /\ execs[1].out = << << <<"./", "gw">>, <<"G", "1">>, 2 >> >>
    /\ tres.nodes = << ChainNode(<<"gw">>, <<"G", "1">>, 1, <<>>) >>

\* No node of the forest has the ip of one of its ancestors, anc being the ips
\* of the ancestors of the forest's roots.
RECURSIVE PathsDistinct(_, _)
PathsDistinct(nodes, anc) ==
    \A k \in 1..Len(nodes) :
        /\ nodes[k].ip \notin anc
        /\ PathsDistinct(nodes[k].children, anc \cup {nodes[k].ip})

\* The ips of the nodes of the forest.
RECURSIVE IpsOf(_)
IpsOf(nodes) ==
    UNION { {nodes[k].ip} \cup IpsOf(nodes[k].children) : k \in 1..Len(nodes) }

\* C24: in the forest a trace returns, no node has the ip of one of its
\* ancestors: the ips along every path from a root downwards are pairwise
\* distinct; the roots have the start host's ip and every ip of the forest is
\* that of a host that was searched.
C24_PathIpsDistinct ==
    tres.state = "ok" =>
        /\ PathsDistinct(tres.nodes, {})
        /\ \A k \in 1..Len(tres.nodes) : tres.nodes[k].ip = root
        /\ IpsOf(tres.nodes) \subseteq visited_ips

\* C24 witness: the logs lead from host 1 to 2, from 2 to 3 and from 3 back to
\* 1; the trace ended with the path 1, 2, 3, the node of host 3 without
\* children.
C24_Witness ==
    /\ tres.state = "ok"
    /\ Len(execs) = 3
    /\ execs[1].out = <<HopLine(2)>>
    /\ execs[2].out = <<HopLine(3)>>
    /\ execs[3].out = <<HopLine(1)>>
    /\ tres.nodes[1].ip = 1
    /\ tres.nodes[1].children[1].ip = 2
    /\ tres.nodes[1].children[1].children[1].ip = 3
    /\ tres.nodes[1].children[1].children[1].children = <<>>

\* The primary searches executed.
PrimaryExecs == { k \in 1..Len(execs) : execs[k].kind = "primary" }

\* C25: every trace ends, whatever the logs say (cycles included), with a result
\* or with the error of the start host; the primary search is executed on at
\* most 1 + the number of known servers hosts, once each; the active calls are
\* on pairwise distinct hosts, one per level, and only those of a level below
\* max_depth execute a search.
C25_Terminates ==
    /\ <>(tres.state # "running")
    /\ [](tres.state # "running" =>
            /\ stack = <<>>
            /\ tres.state \in {"ok", "err"}
            /\ tres.state = "err" =>
                  execs = <<ExecRecord(root, "primary", 0, FALSE, <<>>)>>)
    /\ [](/\ Cardinality(PrimaryExecs) <= 1 + Cardinality(known_servers)
          /\ Cardinality(PrimaryExecs) = Cardinality(Contacted))
    /\ [](/\ Len(stack) <= max_depth + 1
          /\ \A d \in 1..Len(stack) :
                /\ stack[d].depth = d - 1
                /\ stack[d].pc # "enter" => stack[d].depth < max_depth
                /\ \A e \in 1..Len(stack) : stack[e].host = stack[d].host => e = d)

\* C25 witness: two servers are known and the start host is not one of them;
\* the logs lead from host 1 to 2, from 2 to 3 and from 3 back to 1; the trace
\* ended after three searches.
C25_Witness ==
    /\ tres.state = "ok"
    /\ known_servers = {2, 3}
    /\ Cardinality(PrimaryExecs) = 3
    /\ execs[1].out = <<HopLine(2)>>
    /\ execs[2].out = <<HopLine(3)>>
    /\ execs[3].out = <<HopLine(1)>>

(* ====================================================================== *)
(*                      properties of the connection                      *)
(* ====================================================================== *)
\* The positions in conn.ops of the calls among cs.
Made(cs) == { k \in 1..Len(conn.ops) : conn.ops[k] \in cs }

\* C26: a channel is opened, and a command, a PTY or a shell started, only
\* after userauth_password returned without error and sess.authenticated() was
\* then called and reported true; when it reports false the operation returns
\* the authentication error and has made no call that opens a channel or
\* starts anything on the remote host.
C26_VerifiedBeforeChannel ==
    /\ \A k \in Made(RemoteCalls) :
          /\ remote.fails # "userauth_password"
          /\ remote.authenticated
          /\ \E i, j \in 1..(k - 1) :
                /\ i < j
                /\ conn.ops[i] = "userauth_password"
                /\ conn.ops[j] = "authenticated"
    /\ (conn.pc = "returned" /\ ~remote.authenticated
          /\ Made({"userauth_password"}) # {}
          /\ remote.fails # "userauth_password") =>
          /\ conn.res = "Authentication failed"
          /\ Made(RemoteCalls) = {}
    /\ conn.res = "ok" => remote.authenticated

\* C26 witness: execute_ssh_for_chain made the authentication call, which
\* returned without error, found the session not authenticated and returned
\* the authentication error; exec would have succeeded.
C26_Witness ==
    /\ conn.op = "execute_ssh_for_chain"
    /\ conn.pc = "returned"
    /\ conn.res = "Authentication failed"
    /\ remote = [fails |-> "none", authenticated |-> FALSE]
    /\ conn.ops[Len(conn.ops)] = "authenticated"

(* ====================================================================== *)
(*                   properties of the reader thread, III                 *)
(* ====================================================================== *)
\* C27: once close_session has set the shutdown flag of a session, its reader
\* thread reads the channel once more at most and emits one more event at
\* most, an output or the exit event; a read made with the flag set is the
\* last, and after an event emitted with the flag set the thread only ends.
C27_OneMoreRead ==
    /\ [](\A s \in SessionIds :
            /\ readsAfter[s] <= 1
            /\ eventsAfter[s] <= 1
            /\ (readsAfter[s] = 1 \/ eventsAfter[s] = 1) => shutdown[s]
            /\ (eventsAfter[s] = 1 /\ rpc[s] # "done") => rpc[s] = "top"
            /\ (readsAfter[s] = 1 /\ rpc[s] # "done") => rpc[s] \in {"top", "emit", "sleep"})
    /\ [][\A s \in SessionIds :
            shutdown[s] =>
                /\ readsAfter'[s] # readsAfter[s] => rpc[s] = "read"
                /\ eventsAfter'[s] # eventsAfter[s] =>
                      /\ Len(events'[s]) = Len(events[s]) + 1
                      /\ rpc[s] \in {"read", "emit"}
                /\ events'[s] # events[s] => eventsAfter'[s] = eventsAfter[s] + 1]_vars

\* C27 witness: close_session returned; the reader thread, which was waiting
\* for the lock, then read a chunk, emitted it and ended at the flag.
C27_Witness ==
    \E s \in SessionIds :
        /\ ret = Returned("close_session", s, "ok")
        /\ shutdown[s]
        /\ readsAfter[s] = 1
        /\ eventsAfter[s] = 1
        /\ ended[s] = "shutdown"
        /\ events[s][Len(events[s])].kind = "output"

(* ====================================================================== *)
(*                  properties of the session manager, IV                 *)
(* ====================================================================== *)
\* The threads: the callers, and the reader thread of session s as 0 - s.
Threads == Callers \cup { 0 - s : s \in SessionIds }

\* The thread that holds the lock of session s.
Owner(s) == IF holder[s] = Reader THEN 0 - s ELSE holder[s]

\* The threads whose lock thread th waits for: the holder of the session's lock
\* at lock(), the holders of a registry reference at insert().
WaitsFor(th) ==
    IF th \in Callers
    THEN IF /\ call[th].pc = "lock"
            /\ call[th].sid \notin poisoned
            /\ holder[call[th].sid] # NoThread
         THEN {Owner(call[th].sid)}
         ELSE IF call[th].pc = "insert" THEN refs \ {th}
         ELSE {}
    ELSE IF /\ rpc[0 - th] = "lock"
            /\ (0 - th) \notin poisoned
            /\ holder[0 - th] # NoThread
         THEN {Owner(0 - th)}
         ELSE {}

\* The threads reached from those of T along at most n waits.
RECURSIVE WaitClosure(_, _)
WaitClosure(T, n) ==
    IF n = 0 THEN T
    ELSE WaitClosure(T \cup UNION { WaitsFor(u) : u \in T }, n - 1)

\* The thread is in a call, or is a reader thread whose loop has not ended.
InProgress(th) ==
    IF th \in Callers THEN call[th].pc # "idle"
    ELSE rpc[0 - th] \notin {"none", "done"}

\* The thread can take its next step.
CanStep(th) ==
    IF th \in Callers THEN ENABLED Continue(th) ELSE ENABLED ReaderStep(0 - th)

Warned(h) == InLog(trace_log, LogLine("WARN", h, max_depth))

\* A call on host h is at its search.
Searching(h) == \E d \in 1..Len(stack) : stack[d].host = h /\ stack[d].pc = "search"

\* C29: a call that begins at depth max_depth leaves the visited set as it is,
\* its host not being in it, and the node of the line that led to the host is
\* recorded without children; a host is in the visited set only if it is or
\* was searched, and total_hops counts the visited hosts, so a host that was
\* only reached at max_depth is not counted; when a call on such a host begins
\* later at a smaller depth, the host is marked and searched.
C29_DepthLimitNotVisited ==
    /\ [][(AtDepthLimit /\ stack' # stack) =>
            /\ visited_ips' = visited_ips
            /\ Top.host \notin visited_ips'
            /\ Len(stack) > 1
            /\ LET par == stack[Len(stack) - 1]
                   par2 == stack'[Len(stack')]
               IN  /\ Len(par2.nodes) = Len(par.nodes) + 1
                   /\ par2.nodes[Len(par2.nodes)] =
                         ChainNode(Stripped(par.lines[par.i][1]), par.lines[par.i][2],
                                   par.host, <<>>)
                   /\ par.lines[par.i][3] = Top.host]_vars
    /\ [](\A h \in Hosts :
            h \in visited_ips => (Execs("primary", h) # {} \/ Searching(h)))
    /\ [](tres.state = "ok" =>
            /\ tres.total_hops = Cardinality(visited_ips)
            /\ \A h \in Hosts :
                  (Warned(h) /\ Execs("primary", h) = {}) => h \notin visited_ips)
    /\ [][(/\ stack # <<>>
           /\ Top.pc = "enter"
           /\ Warned(Top.host)
           /\ Top.depth < max_depth
           /\ stack' # stack) =>
            /\ visited_ips' = visited_ips \cup {Top.host}
            /\ Top.host \notin visited_ips
            /\ stack' = WithTop([Top EXCEPT !.pc = "search"])]_vars

\* C29 witness: with max_depth 2, host 3 was reached from host 2 at depth 2 and
\* not searched, then from the start host at depth 1 and searched; the node of
\* host 2 that led to it has no children and the three hosts are counted.
C29_Witness ==
    /\ max_depth = 2
    /\ tres.state = "ok"
    /\ Warned(3)
    /\ Len(execs) = 3
    /\ execs[1].out = <<HopLine(2), HopLine(3)>>
    /\ execs[2] = ExecRecord(2, "primary", 1, TRUE, <<HopLine(3)>>)
    /\ execs[3].host = 3
    /\ execs[3].depth = 1
    /\ tres.nodes[1].children = << ChainNode(<<"hop", 3>>, <<"B", "1">>, 2, <<>>) >>
    /\ tres.total_hops = 3

====
